---- MODULE Spec2Model ----
(***************************************************************************)
(* Conversation identity resolution and incremental synchronisation of    *)
(* the AI Chat Memory extension: BasePlatformAdapter (js/core/base.js),   *)
(* StorageManager (js/core/storage-manager.js) and the background store   *)
(* (js/background.js).                                                     *)
(*                                                                         *)
(* One step of the model is one JavaScript task: a timer firing, a        *)
(* response arriving, a user or page event.  Everything a task runs       *)
(* synchronously, the promise reactions it triggers included, belongs to  *)
(* the same step.                                                          *)
(***************************************************************************)
EXTENDS Integers, Sequences, FiniteSets, TLC

\* ---------------------------------------------------------------- bounds
MaxLen == 2        \* longest message sequence handed to calculateMessageChanges
MaxOps == 2        \* findOrCreateConversation promises pending at once
MaxChains == 2     \* initAdapter / save / manual-save chains pending at once
MaxConvs == 3      \* conversation ids generateId hands out in one run
MaxObservers == 2  \* connected MutationObservers counted (the count saturates)
MaxEvents == 2     \* navigations, DOM changes and manual saves of one browsing session
MaxEventsAny == 1  \* the same, when the session may start on any page in any mode
MaxChannelEvents == 2  \* channel failures, DOM changes and manual saves of one page
MaxTime == 3       \* distinct instants of the timestamps
MaxLiveEvents == 2 \* changes of the messages of an observed page
MaxSettingsEvents == 2  \* settings updates, DOM changes and manual saves of one page
MaxListed == 2     \* conversations in the store getAllConversations lists

\* -------------------------------------------------------------- constants
EXTRACT_RETRIES == 3     \* attemptExtraction: retryCount < 3
SAVE_RETRIES == 2        \* attemptSave: retryCount < 2
SEND_RETRIES == 2        \* sendMessageWithRetry: retryCount < 2

Null == "null"
Tabs == {1, 2}
OpIds == 1..MaxOps
ChainIds == 1..MaxChains
ConvIds == 1..MaxConvs
NoId == 0

\* Pages of the chat application: the query-stripped URL and the platform's
\* own conversation id that extractConversationInfo reads from the URL.
\* Monica keeps the id in the query string (?convId=...), so two
\* conversations can share one query-stripped link.
Links == {"L1", "L2"}
Exts == {"E1", "E2", "E3"}
Loc(l, e) == [link |-> l, ext |-> e]
LocsWithId == {Loc("L1", "E1"), Loc("L1", "E2"), Loc("L2", "E3")}
NewChatLoc == Loc("L1", Null)
NoLoc == Loc(Null, Null)
Locs == LocsWithId \cup {NewChatLoc}

\* What the page shows: the message elements in document order.
Elem(s, c) == [sender |-> s, content |-> c]
Doms == { <<>>,
          <<Elem("user", "q")>>,
          <<Elem("user", "q"), Elem("AI", "a")>> }

\* ------------------------------------------------------- pure functions

\* generateMessageId: `msg_${sender}_position_${index}`
generateMessageId(sender, content, index) == <<sender, index>>

\* extractMessages / extractMessageFromElement: one message per element,
\* the id derived from sender and position.
extractMessages(dom) ==
  [i \in 1..Len(dom) |->
     [messageId |-> generateMessageId(dom[i].sender, dom[i].content, i),
      content |-> dom[i].content]]

\* pageUrl.split('?')[0]
cleanUrl(url) == url.link

\* externalId.startsWith('new_conversation_')
isPlaceholder(externalId) == externalId = "new_conversation_1"

RECURSIVE mapOf(_, _)
\* new Map(); msgs.forEach(msg => map.set(msg.messageId, msg)): the last
\* message of an id is the one the map keeps.
mapOf(msgs, id) ==
  IF msgs = <<>> THEN Null
  ELSE IF msgs[Len(msgs)].messageId = id THEN msgs[Len(msgs)].content
  ELSE mapOf(SubSeq(msgs, 1, Len(msgs) - 1), id)

mapHas(msgs, id) == \E i \in 1..Len(msgs) : msgs[i].messageId = id

RECURSIVE collectNew(_, _)
collectNew(storedMessages, cur) ==
  IF cur = <<>> THEN <<>>
  ELSE (IF ~mapHas(storedMessages, Head(cur).messageId) THEN <<Head(cur)>> ELSE <<>>)
       \o collectNew(storedMessages, Tail(cur))

RECURSIVE collectUpdated(_, _)
collectUpdated(storedMessages, cur) ==
  IF cur = <<>> THEN <<>>
  ELSE (IF mapHas(storedMessages, Head(cur).messageId)
           /\ mapOf(storedMessages, Head(cur).messageId) # Head(cur).content
        THEN << [messageId |-> Head(cur).messageId,
                 oldContent |-> mapOf(storedMessages, Head(cur).messageId),
                 newContent |-> Head(cur).content] >>
        ELSE <<>>)
       \o collectUpdated(storedMessages, Tail(cur))

RECURSIVE collectRemoved(_, _)
collectRemoved(sto, currentMessages) ==
  IF sto = <<>> THEN <<>>
  ELSE (IF ~mapHas(currentMessages, Head(sto).messageId) THEN <<Head(sto)>> ELSE <<>>)
       \o collectRemoved(Tail(sto), currentMessages)

\* A plausible slip: the removed messages are never looked for.
calculateMessageChanges_noRemoved(storedMessages, currentMessages) ==
  [newMessages |-> collectNew(storedMessages, currentMessages),
   updatedMessages |-> collectUpdated(storedMessages, currentMessages),
   removedMessages |-> <<>>]

calculateMessageChanges(storedMessages, currentMessages) ==
  [newMessages |-> collectNew(storedMessages, currentMessages),
   updatedMessages |-> collectUpdated(storedMessages, currentMessages),
   removedMessages |-> collectRemoved(storedMessages, currentMessages)]

hasChanges(ch) ==
  \/ Len(ch.newMessages) > 0
  \/ Len(ch.updatedMessages) > 0
  \/ Len(ch.removedMessages) > 0

\* A plausible slip: the merge keeps the stored list.
mergeMessages_keepStored(storedMessages, currentMessages, ch) == storedMessages

\* mergeMessages: "使用当前消息列表"
mergeMessages(storedMessages, currentMessages, ch) == currentMessages

NoChanges == [newMessages |-> <<>>, updatedMessages |-> <<>>, removedMessages |-> <<>>]

\* ------------------------------------------------------------------ state
VARIABLES
  win,       \* per tab: window.location and the rendered message elements
  ad,        \* per tab: the fields of the BasePlatformAdapter instance
  ops,       \* the promises findOrCreateConversation has created
  chains,    \* the promise chains of initAdapter, handleManualSave and the saves
  remote,    \* the conversations object store of the background page
  local,     \* the conversations object store StorageManager opens in the page
  backfills, \* externalId backfill writes sent and not yet applied
  chan,      \* the extension channel: "ok"; "down" while the background does not
             \* answer (lastError, not fatal); "invalidated" once callbacks report
             \* 'Extension context invalidated' with chrome.runtime.id still
             \* defined; "invalid" once chrome.runtime.id is gone
  autoSave,  \* window.aiChatMemorySettings.autoSave
  events,    \* page and user events the run still admits
  idClock,   \* ids generateId has handed out
  ev,        \* history: what the step just taken did (a lookup judged, a write applied)
  diffStored, diffCurrent, diffChanges,  \* a call of calculateMessageChanges
  listStored, listResult,                \* a call of getAllConversations
  idb        \* the IndexedDB database of the page and a StorageManager on it

vars == <<win, ad, ops, chains, remote, local, backfills, chan, autoSave, events, idClock,
          ev, diffStored, diffCurrent, diffChanges, listStored, listResult, idb>>
diffVars == <<diffStored, diffCurrent, diffChanges, listStored, listResult, idb>>

\* ------------------------------------------------------------ the stores

\* this.platform of the adapter
Platform == "monica"

\* A stored conversation as the adapter builds it.  title and the timestamps
\* play no part in identity resolution.
Conv(id, l, e, m) ==
  [conversationId |-> id, link |-> l, externalId |-> e, messages |-> m, platform |-> Platform]

\* The record smartIncrementalUpdate creates: { conversationId, messages }
Bare(id, m) ==
  [conversationId |-> id, link |-> Null, externalId |-> Null, messages |-> m, platform |-> Null]
NoConv == Bare(NoId, <<>>)

minId(S) == CHOOSE r \in S : \A q \in S : r.conversationId <= q.conversationId

\* store.get(conversationId)
getConversation(store, id) ==
  IF \E r \in store : r.conversationId = id
  THEN CHOOSE r \in store : r.conversationId = id
  ELSE NoConv

\* store.index('link').get(url): the matching record with the lowest key
findConversationByUrl(store, url) ==
  IF \E r \in store : r.link = url
  THEN minId({r \in store : r.link = url})
  ELSE NoConv

\* store.index('externalId').get(externalId)
storeFindByExternalId(store, externalId) ==
  IF \E r \in store : r.externalId = externalId
  THEN minId({r \in store : r.externalId = externalId})
  ELSE NoConv

\* store.put(conversation)
putConversation(store, conv) ==
  {r \in store : r.conversationId # conv.conversationId} \cup {conv}

\* store.add(conversation): fails on an existing key
canAdd(store, conv) == \A r \in store : r.conversationId # conv.conversationId

\* The database StorageManager opens: its version, whether the conversations
\* object store is there, the store's indexes and records; open: this.db is
\* set; upgraded: onupgradeneeded ran when it was opened; result: how the last
\* findConversationByExternalId ended.
DB_VERSION == 2
IndexNames == {"link", "platform", "updatedAt", "createdAt", "externalId"}
NoLookup == [called |-> FALSE, failed |-> FALSE, conversation |-> NoConv]
NoDb == [version |-> 0, store |-> FALSE, indexes |-> {}, records |-> {}, open |-> FALSE,
         upgraded |-> FALSE, result |-> NoLookup]

\* request.onupgradeneeded: the object store is created or taken from the
\* upgrade transaction, ensureIndex adds each index that is missing
onupgradeneeded(d) ==
  [d EXCEPT !.version = DB_VERSION, !.store = TRUE, !.indexes = @ \cup IndexNames,
            !.upgraded = TRUE]

\* initDB(): this.db if set; else indexedDB.open(DB_NAME, DB_VERSION), which
\* runs onupgradeneeded on a database of a lower version
initDB(d) ==
  IF d.open THEN d
  ELSE [(IF d.version < DB_VERSION THEN onupgradeneeded(d) ELSE d) EXCEPT !.open = TRUE]

\* A plausible slip: store.index() outside the try block.
missingIndex_throws(d) == [called |-> TRUE, failed |-> TRUE, conversation |-> NoConv]

\* catch (e) { resolve(null) }
missingIndex(d) == [called |-> TRUE, failed |-> FALSE, conversation |-> NoConv]

\* StorageManager.findConversationByExternalId(externalId) after getDB()
localFindByExternalId(d, externalId) ==
  IF "externalId" \notin d.indexes
  THEN missingIndex(d)
  ELSE [called |-> TRUE, failed |-> FALSE,
        conversation |-> storeFindByExternalId(d.records, externalId)]

\* The message types the background listener answers.  Any other type gets no
\* response, which the sender sees as chrome.runtime.lastError.
BackgroundHandles ==
  {"connectDB", "findConversationByUrl", "createConversation", "updateConversation",
   "getConversationById", "getAllConversations", "deleteConversation",
   "getStorageUsage", "updateSettings", "getSettings", "openSidePanel"}

\* What a message of type `type` meets at the background page: an answer from
\* its store, or nothing.
remoteAnswers(type) == chan = "ok" /\ type \in BackgroundHandles

\* ---------------------------------------------------------- the adapter

\* constructor(platform)
NewAdapter(url) ==
  [pageUrl |-> url,
   currentConversationId |-> NoId,
   isChecking |-> FALSE,
   contentObserver |-> FALSE,    \* this.contentObserver refers to an observer
   connected |-> 0,              \* observers created and not disconnected
   debounceTimer |-> FALSE,
   lastMessagesJson |-> <<>>,     \* null: no extraction is empty when it is compared
   lastKnownUrl |-> "",
   lastKnownConversationId |-> Null,
   isCreatingConversation |-> FALSE,
   creationPromise |-> NoId,
   currentUrlKey |-> Null,
   forceLocalStorageMode |-> FALSE,
   bootTimer |-> FALSE,          \* init(): setTimeout(() => this.initAdapter(), 100)
   startPc |-> "started",        \* start(): "retryInit" while its check is pending
   startRetry |-> 0,             \* retryInit's retryCount
   urlEvent |-> NoLoc]           \* url-changed listener: setTimeout(initAdapter(detail), 100)

\* (at: this.pageUrl without its query string and lastKnownConversationId
\* when the operation extracted its messages, and where the window was)
NoPage == [link |-> Null, ext |-> Null, winLink |-> Null, winExt |-> Null]
pageAt(a, w) == [link |-> cleanUrl(a.pageUrl), ext |-> a.lastKnownConversationId,
                 winLink |-> cleanUrl(w.loc), winExt |-> w.loc.ext]

FreeOp ==
  [pc |-> "free", tab |-> 0, key |-> Null, fresh |-> FALSE, msgs |-> <<>>,
   retry |-> 0, externalId |-> Null, link |-> Null, via |-> Null,
   conv |-> NoConv, seen |-> {}, at |-> NoPage]

FreeChain ==
  [pc |-> "free", kind |-> Null, tab |-> 0, op |-> NoId, msgs |-> <<>>,
   retry |-> 0, target |-> NoId, externalId |-> Null, link |-> Null, via |-> Null,
   write |-> Null, conv |-> NoConv, pageExt |-> Null, emptyDiff |-> FALSE]

\* /Extension context invalidated/i.test(chrome.runtime.lastError.message)
fatalError == chan \in {"invalidated", "invalid"}

NoEvent ==
  [kind |-> "none", by |-> Null, caller |-> Null, stored |-> Null, accepted |-> FALSE,
   id |-> NoId, convExt |-> Null, pageExt |-> Null, emptyDiff |-> FALSE,
   backend |-> Null, raced |-> FALSE, revisit |-> FALSE,
   msgs |-> <<>>, dropped |-> FALSE,
   call |-> Null, fatal |-> FALSE, attempts |-> 0, servedLocal |-> FALSE,
   nextVia |-> Null, force |-> FALSE, fresh |-> FALSE, pageLink |-> Null,
   errorShown |-> FALSE, delay |-> 0, unhandled |-> {}, at |-> NoPage]

MatchEvent(by, backend, caller, conversation, accepted) ==
  [NoEvent EXCEPT !.kind = "match", !.by = by, !.backend = backend, !.caller = caller,
                  !.stored = conversation.externalId, !.id = conversation.conversationId,
                  !.accepted = accepted]

SaveEvent(backend, c, replaced) ==
  [NoEvent EXCEPT !.kind = "save", !.backend = backend, !.id = c.conv.conversationId,
                  !.convExt = replaced.externalId, !.pageExt = c.pageExt,
                  !.emptyDiff = c.emptyDiff, !.by = c.kind, !.msgs = c.msgs,
                  !.dropped = \E i \in 1..Len(replaced.messages) :
                                 ~mapHas(c.msgs, replaced.messages[i].messageId)]

\* The remote attempt of store call `call`, sent with chrome.runtime.sendMessage
\* itself, has failed.  fatal: the error is 'Extension context invalidated';
\* attempts: the sends made; servedLocal: the same call is now put to the
\* local store; nextVia: the backend the operation's next store call goes to
\* (Null when the operation is over); force: forceLocalStorageMode of
\* adapter a once the failure is handled.
DirectFailureEvent(call, nextVia, a) ==
  [NoEvent EXCEPT !.kind = "failure", !.call = call, !.fatal = fatalError,
                  !.attempts = 1, !.servedLocal = FALSE,
                  !.nextVia = nextVia, !.force = a.forceLocalStorageMode]

\* The same for a call put through sendMessageWithRetry, which sends again
\* while retryCount < 2 and the runtime id is there.
FailureEvent(call, servedLocal, nextVia, a) ==
  [DirectFailureEvent(call, nextVia, a) EXCEPT
     !.attempts = IF chan = "invalid" THEN 1 ELSE 1 + SEND_RETRIES,
     !.servedLocal = servedLocal]

\* findOrCreateConversation resolves null: the page was empty at each of its
\* `attempts` extractions.
EmptyEvent(attempts) == [NoEvent EXCEPT !.kind = "empty", !.attempts = attempts]

\* connectToDatabase has resolved for adapter a.  accepted: connectDB was
\* answered; force: forceLocalStorageMode as the call found it.
ConnectEvent(a) ==
  [NoEvent EXCEPT !.kind = "connect", !.accepted = (chan = "ok"),
                  !.force = a.forceLocalStorageMode]

\* (SaveEvent: the write of save chain c over the record `replaced`.  msgs is
\* what the save extracted; dropped: a message of the replaced record has no
\* counterpart in it.)

\* The insert of operation o into a store holding `store`.  raced: a record of
\* the same link that the lookups would have accepted was created after o's
\* first URL lookup was answered.  revisit: the page has not moved since o began,
\* and a record of the same link and externalId was already there when that
\* lookup was answered.  msgs: what o extracted; fresh: the page has not moved
\* since o began; pageLink: this.pageUrl, query string removed, at the insert.
InsertEvent(backend, o, store) ==
  [NoEvent EXCEPT !.kind = "insert", !.backend = backend, !.id = o.conv.conversationId,
                  !.convExt = o.conv.externalId,
                  !.raced = \E r \in store : /\ r.link = o.conv.link
                                             /\ r.conversationId \notin o.seen
                                             /\ \/ r.externalId = Null
                                                \/ o.conv.externalId = Null
                                                \/ r.externalId = o.conv.externalId,
                  !.revisit = \E r \in store : /\ o.fresh /\ o.conv.externalId # Null
                                               /\ r.externalId = o.conv.externalId
                                               /\ r.link = o.conv.link
                                               /\ r.conversationId \in o.seen,
                  !.msgs = o.msgs, !.fresh = o.fresh,
                  !.pageLink = cleanUrl(ad[o.tab].pageUrl), !.at = o.at]

freeOps == {o \in OpIds : ops[o].pc = "free"}
freeChains == {c \in ChainIds : chains[c].pc = "free"}
firstFree(S) == CHOOSE x \in S : \A y \in S : x <= y

\* canUseExtensionAPI(): forceLocalStorageMode off, chrome.runtime.id present
canUseExtensionAPI(a) == ~a.forceLocalStorageMode /\ chan # "invalid"

\* sendMessageWithRetry rejects after its last retry: the flag a call leaves
\* behind.  Once chrome.runtime.id is gone the retry is refused before it
\* is sent and the flag is not touched.
sendMessageWithRetry(a) ==
  [a EXCEPT !.forceLocalStorageMode = @ \/ chan = "invalidated"]
backendOf(a) == IF canUseExtensionAPI(a) THEN "remote" ELSE "local"
storeOf(via) == IF via = "remote" THEN remote ELSE local

\* Requests of one tab reach a store in the order they were sent: a response
\* to tab t comes only after the writes t sent earlier have been applied.
inOrder(t) == \A b \in backfills : b.tab # t

\* A plausible slip: the stored externalId is not compared at all.
externalIdMismatch_never(extId, conversation) == FALSE

\* extId && conversation.externalId && conversation.externalId !== extId
externalIdMismatch(extId, conversation) ==
  /\ extId # Null
  /\ conversation.externalId # Null
  /\ conversation.externalId # extId

\* A plausible slip: initAdapter ends without installing the observer.
setupMutationObserver_never(a) == a

\* setupMutationObserver(): one more connected observer, referred to by
\* this.contentObserver
setupMutationObserver(a) ==
  [a EXCEPT !.contentObserver = TRUE,
            !.connected = IF @ < MaxObservers THEN @ + 1 ELSE @]

\* A plausible slip: a re-initialisation starts over with the extension API.
initAdapter_freshMode(a, url) ==
  [a EXCEPT !.pageUrl = url, !.forceLocalStorageMode = FALSE,
            !.contentObserver = FALSE,
            !.connected = IF a.contentObserver THEN @ - 1 ELSE @,
            !.isCreatingConversation = IF a.currentUrlKey # cleanUrl(url) THEN FALSE ELSE @,
            !.creationPromise = IF a.currentUrlKey # cleanUrl(url) THEN NoId ELSE @,
            !.currentUrlKey = cleanUrl(url)]

\* The synchronous part of initAdapter(options)
initAdapter(a, url) ==
  LET a1 == IF a.contentObserver
            THEN [a EXCEPT !.contentObserver = FALSE, !.connected = @ - 1]
            ELSE a
      a2 == [a1 EXCEPT !.pageUrl = url]
  IN IF a2.currentUrlKey # cleanUrl(url)
     THEN [a2 EXCEPT !.isCreatingConversation = FALSE, !.creationPromise = NoId,
                     !.currentUrlKey = cleanUrl(url)]
     ELSE a2

\* fallbackToUrlSearchForCreate(messages, resolve, reject): the lookup is sent
fallbackToUrlSearchForCreate(a, o) ==
  [o EXCEPT !.pc = "urlLookup", !.link = cleanUrl(a.pageUrl), !.via = backendOf(a)]

\* processConversation(messages, resolve, reject)
processConversation(a, o, messages) ==
  IF a.lastKnownConversationId # Null /\ ~isPlaceholder(a.lastKnownConversationId)
  THEN [o EXCEPT !.pc = "extLookup", !.msgs = messages,
                 !.externalId = a.lastKnownConversationId]
  ELSE fallbackToUrlSearchForCreate(a, [o EXCEPT !.msgs = messages])

\* doubleCheckBeforeCreate(messages, cleanUrl, resolve, reject): the lookup is sent
doubleCheckBeforeCreate(a, o) ==
  [o EXCEPT !.pc = "doubleCheck", !.via = backendOf(a)]

\* The records the store of the first URL lookup held when it answered
seenBy(o) == {r.conversationId : r \in storeOf(o.via)}

\* A plausible slip: the record is built without the messages.
createNewConversation_noMessages(a, o) ==
  [o EXCEPT !.pc = "create", !.via = backendOf(a),
            !.conv = Conv(idClock + 1, o.link, a.lastKnownConversationId, <<>>)]

\* createNewConversation(messages, cleanUrl, resolve, reject): the record is
\* built and the create is sent
createNewConversation(a, o) ==
  [o EXCEPT !.pc = "create", !.via = backendOf(a),
            !.conv = Conv(idClock + 1, o.link, a.lastKnownConversationId, o.msgs)]

\* performIncrementalSave(): the messages are extracted and the read is sent
performIncrementalSave(a, w, c) ==
  [c EXCEPT !.pc = IF canUseExtensionAPI(a) THEN "saveGet" ELSE "localGet",
            !.msgs = extractMessages(w.dom), !.target = a.currentConversationId,
            !.pageExt = w.loc.ext, !.op = NoId, !.retry = 0]

\* A plausible slip: attemptSave goes on to performIncrementalSave without
\* looking at what it extracted.
saveAllMessages_noEmptyCheck(a, w, c) == performIncrementalSave(a, w, c)

\* saveAllMessages() up to its first await, for a chain that goes on as c
\* once the save is over.  An empty page leaves only the retry timer behind.
saveAllMessages(a, w, c) ==
  IF extractMessages(w.dom) = <<>>
  THEN [FreeChain EXCEPT !.pc = "saveRetry", !.kind = "retry", !.tab = c.tab, !.retry = 1]
  ELSE performIncrementalSave(a, w, c)

RECURSIVE observersAdded(_, _)
observersAdded(a, n) == IF n = 0 THEN a ELSE observersAdded(setupMutationObserver(a), n - 1)

\* The operations of tab t that were started before the URL changed: fresh
\* marks an operation whose page URL and urlKey are still the ones it began with.
staleOps(t) ==
  [o \in OpIds |-> IF ops[o].tab = t THEN [ops[o] EXCEPT !.fresh = FALSE] ELSE ops[o]]

\* The promise of operation o settles with `result` (a conversationId, or NoId
\* for null).  Its reactions run at once, in the order they were registered:
\* the finally-cleanup of findOrCreateConversation, then every chain that
\* awaits the promise, each up to its next await.  initAdapter reads the
\* autoSave setting again before its initial save and before it installs the
\* observer: a chain that finds it false ends here.
SettleFrom(a, t, o, result, opsNow) ==
  LET a1 == [a EXCEPT !.isCreatingConversation = FALSE, !.creationPromise = NoId]
      waiting == {c \in ChainIds : chains[c].pc = "awaitOp" /\ chains[c].op = o}
      a2 == IF waiting # {} /\ result # NoId
            THEN [a1 EXCEPT !.currentConversationId = result] ELSE a1
      manual == {c \in waiting : chains[c].kind = "init" /\ ~autoSave}
      early == {c \in waiting \ manual :
                  chains[c].kind = "init" /\ extractMessages(win[t].dom) = <<>>}
      a3 == IF result # NoId THEN observersAdded(a2, Cardinality(early)) ELSE a2
  IN /\ ad' = [ad EXCEPT ![t] = a3]
     /\ chains' = [c \in ChainIds |->
                     IF c \notin waiting THEN chains[c]
                     ELSE IF result = NoId \/ c \in manual THEN FreeChain
                     ELSE saveAllMessages(a2, win[t], chains[c])]
     /\ ops' = [opsNow EXCEPT ![o] = FreeOp]

Settle(t, o, result, opsNow) == SettleFrom(ad[t], t, o, result, opsNow)

\* ------------------------------------------------------------ the page

\* The user opens another conversation (or a new chat) in the same tab.
Navigate(t, pages, shown) ==
  \E l \in pages, d \in shown :
    /\ events > 0
    /\ events' = events - 1
    /\ l # win[t].loc
    /\ win' = [win EXCEPT ![t] = [loc |-> l, dom |-> d]]
    /\ ad' = [ad EXCEPT ![t].debounceTimer =
                @ \/ (ad[t].connected > 0 /\ autoSave /\ (d # <<>> \/ win[t].dom # <<>>))]
    /\ ops' = staleOps(t)
    /\ ev' = NoEvent
    /\ UNCHANGED <<chains, remote, local, backfills, chan, autoSave, idClock, diffVars>>

\* Message elements appear, change or disappear; a connected observer starts
\* the debounce timer (setupMutationObserver's callback).
DomChange(t, shown) ==
  \E d \in shown :
    /\ events > 0
    /\ events' = events - 1
    /\ d # win[t].dom
    /\ win' = [win EXCEPT ![t].dom = d]
    /\ ad' = [ad EXCEPT ![t].debounceTimer = @ \/ (ad[t].connected > 0 /\ autoSave)]
    /\ ev' = NoEvent
    /\ UNCHANGED <<ops, chains, remote, local, backfills, chan, autoSave, idClock, diffVars>>

\* The background page stops answering, and answers again.
ChannelDown ==
  /\ chan = "ok"
  /\ events > 0
  /\ events' = events - 1
  /\ chan' = "down"
  /\ ev' = NoEvent
  /\ UNCHANGED <<win, ad, ops, chains, remote, local, backfills, autoSave, idClock, diffVars>>

ChannelUp ==
  /\ chan = "down"
  /\ chan' = "ok"
  /\ ev' = NoEvent
  /\ UNCHANGED <<win, ad, ops, chains, remote, local, backfills, autoSave, events, idClock,
                 diffVars>>

\* The extension is reloaded: from now on the channel reports 'Extension
\* context invalidated'.
ChannelInvalidated ==
  /\ chan \in {"ok", "down"}
  /\ events > 0
  /\ events' = events - 1
  /\ chan' = "invalidated"
  /\ ev' = NoEvent
  /\ UNCHANGED <<win, ad, ops, chains, remote, local, backfills, autoSave, idClock, diffVars>>

\* The extension is reloaded or removed: chrome.runtime.id is gone for good.
ContextInvalidated ==
  /\ chan = "ok"
  /\ events > 0
  /\ events' = events - 1
  /\ chan' = "invalid"
  /\ ev' = NoEvent
  /\ UNCHANGED <<win, ad, ops, chains, remote, local, backfills, autoSave, idClock, diffVars>>

\* chrome.runtime.onMessage delivers settingsUpdated, or the settings read
\* from chrome.storage.sync arrive: window.aiChatMemorySettings is replaced.
\* Nothing else is touched; what is in flight goes on.
settingsUpdated ==
  /\ events > 0
  /\ events' = events - 1
  /\ autoSave' = ~autoSave
  /\ ev' = NoEvent
  /\ UNCHANGED <<win, ad, ops, chains, remote, local, backfills, chan, idClock, diffVars>>

\* handleUrlCheck(): the 1 s interval sees a new URL or a new conversation id
\* and dispatches ai-chat-memory-url-changed, whose listener arms a 100 ms timer.
handleUrlCheck(t) ==
  LET a == ad[t]
      l == win[t].loc
  IN /\ l.ext # Null
     /\ cleanUrl(l) # a.lastKnownUrl \/ l.ext # a.lastKnownConversationId
     /\ a.urlEvent = NoLoc
     /\ ad' = [ad EXCEPT ![t].lastKnownUrl = cleanUrl(l),
                         ![t].lastKnownConversationId = l.ext,
                         ![t].urlEvent = l]
     /\ ev' = NoEvent
     /\ UNCHANGED <<win, ops, chains, remote, local, backfills, chan, autoSave, events, idClock,
                    diffVars>>

\* init()'s timer: initAdapter() on window.location.href
BootTimer(t) ==
  /\ ad[t].bootTimer
  /\ freeChains # {}
  /\ LET a == initAdapter([ad[t] EXCEPT !.bootTimer = FALSE], win[t].loc)
         c == firstFree(freeChains)
     IN /\ ad' = [ad EXCEPT ![t] = a]
        /\ chains' = [chains EXCEPT ![c] = [FreeChain EXCEPT !.pc = "connect",
                                                              !.kind = "init", !.tab = t]]
        /\ ops' = IF ad[t].currentUrlKey # a.currentUrlKey THEN staleOps(t) ELSE ops
  /\ ev' = NoEvent
  /\ UNCHANGED <<win, remote, local, backfills, chan, autoSave, events, idClock, diffVars>>

\* The url-changed listener's timer: initAdapter({url, conversationId, ...})
UrlChangedTimer(t) ==
  /\ ad[t].urlEvent # NoLoc
  /\ ~ad[t].bootTimer
  /\ freeChains # {}
  /\ LET a == initAdapter([ad[t] EXCEPT !.urlEvent = NoLoc], ad[t].urlEvent)
         c == firstFree(freeChains)
     IN /\ ad' = [ad EXCEPT ![t] = a]
        /\ chains' = [chains EXCEPT ![c] = [FreeChain EXCEPT !.pc = "connect",
                                                              !.kind = "init", !.tab = t]]
        /\ ops' = IF ad[t].currentUrlKey # a.currentUrlKey THEN staleOps(t) ELSE ops
  /\ ev' = NoEvent
  /\ UNCHANGED <<win, remote, local, backfills, chan, autoSave, events, idClock, diffVars>>

\* handleManualSave() up to `await this.connectToDatabase()`
handleManualSave(t) ==
  /\ events > 0
  /\ events' = events - 1
  /\ freeChains # {}
  /\ LET c == firstFree(freeChains)
     IN /\ ad' = [ad EXCEPT ![t].lastKnownConversationId =
                      IF win[t].loc.ext # Null THEN win[t].loc.ext ELSE @]
        /\ chains' = [chains EXCEPT ![c] = [FreeChain EXCEPT !.pc = "connect",
                                                              !.kind = "manual", !.tab = t]]
  /\ ev' = NoEvent
  /\ UNCHANGED <<win, ops, remote, local, backfills, chan, autoSave, idClock, diffVars>>

\* ------------------------------------------------- resolving the identity

\* findOrCreateConversation() called by chain c of tab t whose adapter is a:
\* the pending promise of the same urlKey is returned, or a new one is created
\* and its first attemptExtraction() runs.
findOrCreateConversation(t, c, a) ==
  LET urlKey == cleanUrl(a.pageUrl)
  IN IF a.isCreatingConversation /\ a.currentUrlKey = urlKey /\ a.creationPromise # NoId
     THEN /\ ad' = [ad EXCEPT ![t] = a]
          /\ chains' = [chains EXCEPT ![c].pc = "awaitOp", ![c].op = a.creationPromise]
          /\ ops' = ops
     ELSE /\ freeOps # {}
          /\ LET o == firstFree(freeOps)
                 a1 == [a EXCEPT !.isCreatingConversation = TRUE, !.currentUrlKey = urlKey,
                                 !.creationPromise = o]
                 base == IF a.currentUrlKey # urlKey THEN staleOps(t) ELSE ops
                 new == [FreeOp EXCEPT !.tab = t, !.key = urlKey, !.fresh = TRUE]
                 messages == extractMessages(win[t].dom)
             IN /\ ad' = [ad EXCEPT ![t] = a1]
                /\ chains' = [chains EXCEPT ![c].pc = "awaitOp", ![c].op = o]
                /\ ops' = [base EXCEPT ![o] =
                             IF messages = <<>>
                             THEN [new EXCEPT !.pc = "retry"]
                             ELSE processConversation(a1, [new EXCEPT !.at = pageAt(a1, win[t])],
                                                      messages)]

\* findConversation(): the lookup-only resolver of manual mode
findConversation(t, c, a) ==
  /\ ad' = [ad EXCEPT ![t] = a]
  /\ ops' = ops
  /\ chains' = [chains EXCEPT ![c] =
       IF a.lastKnownConversationId # Null /\ ~isPlaceholder(a.lastKnownConversationId)
       THEN [@ EXCEPT !.pc = "findExt", !.externalId = a.lastKnownConversationId]
       ELSE [@ EXCEPT !.pc = "findUrl", !.link = cleanUrl(a.pageUrl), !.via = backendOf(a)]]

\* connectToDatabase() resolves: the background answered connectDB, or the
\* runtime id stayed missing and fallbackToLocalStorage() opened the local
\* store.  The caller goes on to resolve the conversation.
ConnectResponse(c) ==
  /\ chains[c].pc = "connect"
  /\ LET t == chains[c].tab
         a == IF chan = "ok" THEN ad[t] ELSE [ad[t] EXCEPT !.forceLocalStorageMode = TRUE]
     IN IF chains[c].kind = "init" /\ ~autoSave
        THEN findConversation(t, c, a)
        ELSE findOrCreateConversation(t, c, a)
  /\ ev' = ConnectEvent(ad[chains[c].tab])
  /\ UNCHANGED <<win, remote, local, backfills, chan, autoSave, events, idClock, diffVars>>

\* A plausible slip: one retry more.
retryExtraction_oneMore(messages, retryCount) ==
  messages = <<>> /\ retryCount <= EXTRACT_RETRIES

\* messages.length === 0 && retryCount < 3
retryExtraction(messages, retryCount) ==
  messages = <<>> /\ retryCount < EXTRACT_RETRIES

\* attemptExtraction(retryCount + 1): the retry timer of an empty page fires
ExtractionRetry(o) ==
  /\ ops[o].pc = "retry"
  /\ LET t == ops[o].tab
         messages == extractMessages(win[t].dom)
         n == ops[o].retry + 1
     IN IF retryExtraction(messages, n)
        THEN /\ ops' = [ops EXCEPT ![o].retry = n]
             /\ ev' = NoEvent
             /\ UNCHANGED <<ad, chains>>
        ELSE IF messages = <<>>
        THEN /\ Settle(t, o, NoId, ops)
             /\ ev' = EmptyEvent(1 + n)
        ELSE /\ ops' = [ops EXCEPT ![o] = processConversation(ad[t],
                                         [@ EXCEPT !.retry = 0, !.at = pageAt(ad[t], win[t])], messages)]
             /\ ev' = NoEvent
             /\ UNCHANGED <<ad, chains>>
  /\ UNCHANGED <<win, remote, local, backfills, chan, autoSave, events, idClock, diffVars>>

\* findConversationByExternalId(externalId): the store that answers.  A message
\* the background does not handle fails after its retries and the local store
\* is asked instead.
externalIdStore(a) ==
  IF canUseExtensionAPI(a) /\ remoteAnswers("findConversationByExternalId")
  THEN remote ELSE local

\* findConversationByExternalId(externalId) of a page whose backend is `via`,
\* over stores rem and loc: the background has no case for the message, so
\* the request fails after its retries and the page's own store is asked.
externalIdStoreOf(via, rem, loc) ==
  IF via = "remote" /\ "findConversationByExternalId" \in BackgroundHandles
  THEN rem ELSE loc

\* processConversation: the lookup by external id is answered
ExtLookupResponse(o) ==
  /\ ops[o].pc = "extLookup"
  /\ inOrder(ops[o].tab)
  /\ LET t == ops[o].tab
         tried == canUseExtensionAPI(ad[t])
         a == IF tried THEN sendMessageWithRetry(ad[t]) ELSE ad[t]
         conversation == storeFindByExternalId(externalIdStore(ad[t]), ops[o].externalId)
     IN IF conversation # NoConv
        THEN /\ SettleFrom(a, t, o, conversation.conversationId, ops)
             /\ ev' = IF tried
                      THEN FailureEvent("findConversationByExternalId", TRUE, Null, a)
                      ELSE NoEvent
        ELSE /\ ops' = [ops EXCEPT ![o] = fallbackToUrlSearchForCreate(a, @)]
             /\ ad' = [ad EXCEPT ![t] = a]
             /\ ev' = IF tried
                      THEN FailureEvent("findConversationByExternalId", TRUE, backendOf(a), a)
                      ELSE NoEvent
             /\ UNCHANGED chains
  /\ UNCHANGED <<win, remote, local, backfills, chan, autoSave, events, idClock, diffVars>>

\* The URL lookup sent over `via` is answered with this record, NoConv for
\* "not found"; failed tells that the channel reported lastError instead.
lookupFailed(via) == via = "remote" /\ chan # "ok"
lookupResult(via, url) == findConversationByUrl(storeOf(via), url)

\* A plausible slip: the record found is returned as it is, nothing is written.
backfillOf_none(t, via, extId, conversation) == {}

\* The backfill of a record found without externalId: updateConversation is
\* sent with the record as it was read, and nobody waits for it.
backfillOf(t, via, extId, conversation) ==
  IF extId # Null /\ conversation.externalId = Null
  THEN {[tab |-> t, store |-> via, conv |-> [conversation EXCEPT !.externalId = extId]]}
  ELSE {}

\* fallbackToUrlSearchForCreate: the first URL lookup is answered
UrlLookupResponse(o) ==
  /\ ops[o].pc = "urlLookup"
  /\ inOrder(ops[o].tab)
  /\ LET t == ops[o].tab
         a == ad[t]
         via == ops[o].via
         conversation == lookupResult(via, ops[o].link)
         extId == a.lastKnownConversationId
     IN IF lookupFailed(via) \/ conversation = NoConv
        THEN /\ ops' = [ops EXCEPT ![o] =
                             doubleCheckBeforeCreate(a, [@ EXCEPT !.seen = seenBy(ops[o])])]
             /\ ev' = IF lookupFailed(via)
                      THEN DirectFailureEvent("findConversationByUrl", backendOf(a), a)
                      ELSE NoEvent
             /\ UNCHANGED <<ad, chains, backfills>>
        ELSE IF externalIdMismatch(extId, conversation)
        THEN /\ ops' = [ops EXCEPT ![o] =
                             doubleCheckBeforeCreate(a, [@ EXCEPT !.seen = seenBy(ops[o])])]
             /\ ev' = MatchEvent("first", via, extId, conversation, FALSE)
             /\ UNCHANGED <<ad, chains, backfills>>
        ELSE /\ Settle(t, o, conversation.conversationId, ops)
             /\ backfills' = backfills \cup backfillOf(t, via, extId, conversation)
             /\ ev' = MatchEvent("first", via, extId, conversation, TRUE)
  /\ UNCHANGED <<win, remote, local, chan, autoSave, events, idClock, diffVars>>

\* doubleCheckBeforeCreate: the second URL lookup is answered
DoubleCheckResponse(o) ==
  /\ ops[o].pc = "doubleCheck"
  /\ inOrder(ops[o].tab)
  /\ LET t == ops[o].tab
         a == ad[t]
         via == ops[o].via
         conversation == lookupResult(via, ops[o].link)
         extId == a.lastKnownConversationId
     IN IF lookupFailed(via) \/ conversation = NoConv
        THEN /\ idClock < MaxConvs
             /\ ops' = [ops EXCEPT ![o] = createNewConversation(a, @)]
             /\ idClock' = idClock + 1
             /\ ev' = IF lookupFailed(via)
                      THEN DirectFailureEvent("findConversationByUrl", backendOf(a), a)
                      ELSE NoEvent
             /\ UNCHANGED <<ad, chains, backfills>>
        ELSE IF externalIdMismatch(extId, conversation)
        THEN /\ idClock < MaxConvs
             /\ ops' = [ops EXCEPT ![o] = createNewConversation(a, @)]
             /\ idClock' = idClock + 1
             /\ ev' = MatchEvent("double", via, extId, conversation, FALSE)
             /\ UNCHANGED <<ad, chains, backfills>>
        ELSE /\ Settle(t, o, conversation.conversationId, ops)
             /\ backfills' = backfills \cup backfillOf(t, via, extId, conversation)
             /\ ev' = MatchEvent("double", via, extId, conversation, TRUE)
             /\ UNCHANGED idClock
  /\ UNCHANGED <<win, remote, local, chan, autoSave, events, diffVars>>

\* A plausible slip: a create the channel lost is given up.
createFallback_giveUp(o) == FreeOp

\* createNewConversation, the catch around the remote create:
\* storageManager.createConversation(conversation) is called with the same record
createFallback(o) == [o EXCEPT !.via = "local"]

\* createNewConversation: the create is answered.  A create the channel lost
\* is repeated on the local store.
CreateResponse(o) ==
  /\ ops[o].pc = "create"
  /\ inOrder(ops[o].tab)
  /\ LET t == ops[o].tab
         conv == ops[o].conv
     IN IF ops[o].via = "remote" /\ chan # "ok"
        THEN /\ ops' = [ops EXCEPT ![o] = createFallback(@)]
             /\ ad' = [ad EXCEPT ![t] = sendMessageWithRetry(@)]
             /\ ev' = FailureEvent("createConversation", TRUE, "local",
                                   sendMessageWithRetry(ad[t]))
             /\ UNCHANGED <<chains, remote, local>>
        ELSE IF ops[o].via = "remote"
        THEN /\ remote' = remote \cup {conv}
             /\ ev' = InsertEvent("remote", ops[o], remote)
             /\ Settle(t, o, conv.conversationId, ops)
             /\ UNCHANGED local
        ELSE /\ local' = local \cup {conv}
             /\ ev' = InsertEvent("local", ops[o], local)
             /\ Settle(t, o, conv.conversationId, ops)
             /\ UNCHANGED remote
  /\ UNCHANGED <<win, backfills, chan, autoSave, events, idClock, diffVars>>

\* this.creationPromise.finally(() => {...}): the promise finally() returns
\* settles as creationPromise does and nothing is chained to it; unhandled is
\* the set of promises that end rejected without a handler.
finallyCleanup(rejected) == IF rejected THEN {"creationPromise.finally"} ELSE {}

\* createNewConversation: storageManager.createConversation rejects (the
\* IndexedDB request fails), the outer catch calls reject(error).  The
\* promise settles without an id; every caller ends in its own catch.
RejectedEvent(o, errorShown) ==
  [NoEvent EXCEPT !.kind = "rejected", !.call = "createConversation",
                  !.backend = o.via, !.id = o.conv.conversationId,
                  !.errorShown = errorShown, !.unhandled = finallyCleanup(TRUE)]

LocalCreateFails(o) ==
  /\ ops[o].pc = "create" /\ ops[o].via = "local"
  /\ inOrder(ops[o].tab)
  /\ events > 0
  /\ events' = events - 1
  /\ Settle(ops[o].tab, o, NoId, ops)
  /\ ev' = RejectedEvent(ops[o], \E c \in ChainIds : /\ chains[c].pc = "awaitOp"
                                                     /\ chains[c].op = o
                                                     /\ chains[c].kind = "manual")
  /\ UNCHANGED <<win, remote, local, backfills, chan, autoSave, idClock, diffVars>>

\* The backfill write reaches its store (or is lost with the channel).
BackfillApplied(b) ==
  /\ b \in backfills
  /\ backfills' = backfills \ {b}
  /\ IF b.store = "remote"
     THEN /\ remote' = IF chan = "ok" THEN putConversation(remote, b.conv) ELSE remote
          /\ UNCHANGED local
     ELSE /\ local' = putConversation(local, b.conv)
          /\ UNCHANGED remote
  /\ ev' = NoEvent
  /\ UNCHANGED <<win, ad, ops, chains, chan, autoSave, events, idClock, diffVars>>

\* findConversation: the chain of initAdapter receives the id (NoId for null).
\* In manual mode nothing is saved and no observer is installed.
FoundFrom(a, t, c, id) ==
  LET a1 == [a EXCEPT !.currentConversationId = IF id # NoId THEN id ELSE @]
      save == id # NoId /\ autoSave
      early == save /\ extractMessages(win[t].dom) = <<>>
  IN /\ ad' = [ad EXCEPT ![t] = IF early THEN setupMutationObserver(a1) ELSE a1]
     /\ chains' = [chains EXCEPT ![c] =
          IF save
          THEN saveAllMessages(a1, win[t], [FreeChain EXCEPT !.kind = "init", !.tab = t])
          ELSE FreeChain]

Found(t, c, id) == FoundFrom(ad[t], t, c, id)

\* fallbackToUrlSearch(resolve): the lookup is sent
fallbackToUrlSearch(a, c) ==
  [c EXCEPT !.pc = "findUrl", !.link = cleanUrl(a.pageUrl), !.via = backendOf(a)]

\* findConversation: the lookup by external id is answered
FindExtResponse(c) ==
  /\ chains[c].pc = "findExt"
  /\ inOrder(chains[c].tab)
  /\ LET t == chains[c].tab
         tried == canUseExtensionAPI(ad[t])
         a == IF tried THEN sendMessageWithRetry(ad[t]) ELSE ad[t]
         conversation == storeFindByExternalId(externalIdStore(ad[t]), chains[c].externalId)
     IN IF conversation # NoConv
        THEN /\ FoundFrom(a, t, c, conversation.conversationId)
             /\ ev' = IF tried
                      THEN FailureEvent("findConversationByExternalId", TRUE, Null, a)
                      ELSE NoEvent
        ELSE /\ chains' = [chains EXCEPT ![c] = fallbackToUrlSearch(a, @)]
             /\ ad' = [ad EXCEPT ![t] = a]
             /\ ev' = IF tried
                      THEN FailureEvent("findConversationByExternalId", TRUE, backendOf(a), a)
                      ELSE NoEvent
  /\ UNCHANGED <<win, ops, remote, local, backfills, chan, autoSave, events, idClock, diffVars>>

\* fallbackToUrlSearch: the URL lookup is answered
FindUrlResponse(c) ==
  /\ chains[c].pc = "findUrl"
  /\ inOrder(chains[c].tab)
  /\ LET t == chains[c].tab
         via == chains[c].via
         conversation == lookupResult(via, chains[c].link)
         extId == ad[t].lastKnownConversationId
     IN IF lookupFailed(via)
        THEN /\ FoundFrom(sendMessageWithRetry(ad[t]), t, c, NoId)
             /\ ev' = FailureEvent("findConversationByUrl", FALSE, Null,
                                   sendMessageWithRetry(ad[t]))
        ELSE IF conversation = NoConv
        THEN /\ Found(t, c, NoId)
             /\ ev' = NoEvent
        ELSE IF externalIdMismatch(extId, conversation)
        THEN /\ Found(t, c, NoId)
             /\ ev' = MatchEvent("find", via, extId, conversation, FALSE)
        ELSE /\ Found(t, c, conversation.conversationId)
             /\ ev' = MatchEvent("find", via, extId, conversation, TRUE)
  /\ UNCHANGED <<win, ops, remote, local, backfills, chan, autoSave, events, idClock, diffVars>>

\* ------------------------------------------------------------- saving

\* The save of chain c is over: the chain of initAdapter installs the
\* observer, checkForNewMessages releases isChecking.
Finish(c) ==
  LET t == chains[c].tab
      a == ad[t]
  IN /\ chains' = [chains EXCEPT ![c] = FreeChain]
     /\ ad' = [ad EXCEPT ![t] =
                 IF chains[c].kind = "init" /\ a.currentConversationId # NoId /\ autoSave
                 THEN setupMutationObserver(a)
                 ELSE IF chains[c].kind = "signal" THEN [a EXCEPT !.isChecking = FALSE]
                 ELSE a]

\* smartIncrementalUpdate(this.currentConversationId, currentMessages) is
\* called after the remote path failed
localFallback(a, c) ==
  [c EXCEPT !.pc = "localGet", !.target = a.currentConversationId,
            !.conv = NoConv, !.write = Null, !.emptyDiff = FALSE]

\* attemptSave(retryCount + 1): the retry timer of saveAllMessages fires
SaveRetryTimer(c) ==
  /\ chains[c].pc = "saveRetry"
  /\ LET t == chains[c].tab
         messages == extractMessages(win[t].dom)
     IN chains' = [chains EXCEPT ![c] =
          IF messages = <<>> /\ chains[c].retry < SAVE_RETRIES
          THEN [@ EXCEPT !.retry = @ + 1]
          ELSE IF messages = <<>> THEN FreeChain
          ELSE performIncrementalSave(ad[t], win[t], @)]
  /\ ev' = NoEvent
  /\ UNCHANGED <<win, ad, ops, remote, local, backfills, chan, autoSave, events, idClock, diffVars>>

\* performIncrementalSave, remote path, once getConversationById has returned
\* existingConversation: the update of the record, or the create of a
\* missing one, is handed to sendMessageWithRetry, which refuses it when the
\* extension API cannot be used.
sendSaveWrite(a, c, existingConversation) ==
  IF ~canUseExtensionAPI(a) THEN localFallback(a, c)
  ELSE IF existingConversation # NoConv
  THEN [c EXCEPT !.pc = "saveWrite", !.write = "put",
                 !.conv = [existingConversation EXCEPT !.messages = c.msgs],
                 !.emptyDiff = ~hasChanges(calculateMessageChanges(
                                   existingConversation.messages, c.msgs))]
  ELSE [c EXCEPT !.pc = "saveWrite", !.write = "add",
                 !.conv = Conv(a.currentConversationId, cleanUrl(a.pageUrl),
                               a.lastKnownConversationId, c.msgs)]

\* performIncrementalSave, remote path: getConversationById is answered and
\* the write is sent.  A failed read is repeated on the local store.
SaveGetResponse(c) ==
  /\ chains[c].pc = "saveGet"
  /\ inOrder(chains[c].tab)
  /\ LET t == chains[c].tab
         a == ad[t]
         existingConversation == getConversation(remote, chains[c].target)
     IN IF chan # "ok"
        THEN /\ chains' = [chains EXCEPT ![c].pc = "saveGetLocal"]
             /\ ad' = [ad EXCEPT ![t] = sendMessageWithRetry(a)]
             /\ ev' = FailureEvent("getConversationById", TRUE, "local",
                                   sendMessageWithRetry(a))
        ELSE /\ chains' = [chains EXCEPT ![c] = sendSaveWrite(a, @, existingConversation)]
             /\ ev' = NoEvent
             /\ UNCHANGED ad
  /\ UNCHANGED <<win, ops, remote, local, backfills, chan, autoSave, events, idClock, diffVars>>

\* getConversationById, catch: storageManager.getConversation is answered
\* and performIncrementalSave goes on with the record it returned
SaveGetLocalResponse(c) ==
  /\ chains[c].pc = "saveGetLocal"
  /\ inOrder(chains[c].tab)
  /\ chains' = [chains EXCEPT ![c] =
       sendSaveWrite(ad[chains[c].tab], @, getConversation(local, chains[c].target))]
  /\ ev' = NoEvent
  /\ UNCHANGED <<win, ad, ops, remote, local, backfills, chan, autoSave, events, idClock, diffVars>>

\* performIncrementalSave, remote path: updateConversation / createConversation
\* is answered.  A failure hands the save to the local store.
SaveWriteResponse(c) ==
  /\ chains[c].pc = "saveWrite"
  /\ inOrder(chains[c].tab)
  /\ LET t == chains[c].tab
         conv == chains[c].conv
     IN IF chan # "ok"
        THEN /\ chains' = [chains EXCEPT ![c] = localFallback(ad[t], @)]
             /\ ad' = [ad EXCEPT ![t] = sendMessageWithRetry(@)]
             /\ ev' = FailureEvent(IF chains[c].write = "put" THEN "updateConversation"
                                   ELSE "createConversation",
                                   TRUE, "local", sendMessageWithRetry(ad[t]))
             /\ UNCHANGED remote
        ELSE IF chains[c].write = "add" /\ ~canAdd(remote, conv)
        THEN /\ chains' = [chains EXCEPT ![c] = localFallback(ad[t], @)]
             /\ ev' = NoEvent
             /\ UNCHANGED <<ad, remote>>
        ELSE /\ remote' = putConversation(remote, conv)
             /\ ev' = SaveEvent("remote", chains[c],
                                getConversation(remote, conv.conversationId))
             /\ Finish(c)
  /\ UNCHANGED <<win, ops, local, backfills, chan, autoSave, events, idClock, diffVars>>

\* smartIncrementalUpdate: getConversation is answered; a missing record is
\* created, a changed one updated, an unchanged one left alone
LocalGetResponse(c) ==
  /\ chains[c].pc = "localGet"
  /\ inOrder(chains[c].tab)
  /\ LET storedConversation == getConversation(local, chains[c].target)
         ch == calculateMessageChanges(storedConversation.messages, chains[c].msgs)
     IN IF storedConversation = NoConv
        THEN /\ chains' = [chains EXCEPT ![c].pc = "localWrite", ![c].write = "add",
                             ![c].conv = Bare(chains[c].target, chains[c].msgs)]
             /\ UNCHANGED ad
        ELSE IF hasChanges(ch)
        THEN /\ chains' = [chains EXCEPT ![c].pc = "localWrite", ![c].write = "put",
                             ![c].conv = [storedConversation EXCEPT !.messages =
                                mergeMessages(storedConversation.messages, chains[c].msgs, ch)]]
             /\ UNCHANGED ad
        ELSE Finish(c)
  /\ ev' = NoEvent
  /\ UNCHANGED <<win, ops, remote, local, backfills, chan, autoSave, events, idClock, diffVars>>

\* smartIncrementalUpdate: createConversation / updateConversation is done.
\* An add on an existing key fails and the save reports the failure.
LocalWriteResponse(c) ==
  /\ chains[c].pc = "localWrite"
  /\ inOrder(chains[c].tab)
  /\ LET conv == chains[c].conv
     IN IF chains[c].write = "add" /\ ~canAdd(local, conv)
        THEN /\ ev' = NoEvent
             /\ UNCHANGED local
        ELSE /\ local' = putConversation(local, conv)
             /\ ev' = SaveEvent("local", chains[c],
                                getConversation(local, conv.conversationId))
  /\ Finish(c)
  /\ UNCHANGED <<win, ops, remote, backfills, chan, autoSave, events, idClock, diffVars>>

\* The save of chain c has failed on the last backend: result.success is
\* false.  errorShown: showErrorStatus() was called for it.  The failure is
\* written to the console; performIncrementalSave returns normally and
\* saveAllMessages resolves, so no caller's catch runs.
SaveFailedEvent(c) ==
  [NoEvent EXCEPT !.kind = "saveFailed", !.by = c.kind, !.id = c.target,
                  !.backend = "local", !.msgs = c.msgs, !.errorShown = FALSE]

\* smartIncrementalUpdate: an IndexedDB request of the local store fails, the
\* catch returns {success: false}.  Nothing is written; the caller goes on
\* as after a save.
LocalSaveFails(c) ==
  /\ chains[c].pc \in {"localGet", "localWrite"}
  /\ inOrder(chains[c].tab)
  /\ events > 0
  /\ events' = events - 1
  /\ Finish(c)
  /\ ev' = SaveFailedEvent(chains[c])
  /\ UNCHANGED <<win, ops, remote, local, backfills, chan, autoSave, idClock, diffVars>>

\* The debounce timer fires: checkForActualMessageChanges(), and through
\* checkForNewMessages() the save, up to its first await.  sameJson tells
\* whether JSON.stringify of the extracted messages (their createdAt stamps
\* included) repeats the last one.
DebounceFire(t) ==
  /\ ad[t].debounceTimer
  /\ LET a == ad[t]
         currentMsgs == extractMessages(win[t].dom)
     IN \E sameJson \in (IF a.lastMessagesJson = currentMsgs THEN BOOLEAN ELSE {FALSE}) :
          IF ~autoSave \/ a.currentConversationId = NoId \/ currentMsgs = <<>> \/ sameJson
          THEN /\ ad' = [ad EXCEPT ![t].debounceTimer = FALSE]
               /\ UNCHANGED chains
          ELSE IF a.isChecking
          THEN /\ ad' = [ad EXCEPT ![t].debounceTimer = FALSE,
                                   ![t].lastMessagesJson = currentMsgs]
               /\ UNCHANGED chains
          ELSE /\ freeChains # {}
               /\ ad' = [ad EXCEPT ![t].debounceTimer = FALSE,
                                   ![t].lastMessagesJson = currentMsgs,
                                   ![t].isChecking = TRUE]
               /\ chains' = [chains EXCEPT ![firstFree(freeChains)] =
                    performIncrementalSave(a, win[t],
                       [FreeChain EXCEPT !.kind = "signal", !.tab = t])]
  /\ ev' = NoEvent
  /\ UNCHANGED <<win, ops, remote, local, backfills, chan, autoSave, events, idClock, diffVars>>

\* --------------------------------------------- calculateMessageChanges alone

DiffIds == {generateMessageId("user", "q", 1), generateMessageId("AI", "a", 2),
            generateMessageId("user", "r", 3)}
DiffContents == {"a", "b"}
DiffMessages == [messageId : DiffIds, content : DiffContents]
DiffSeqs == UNION {[1..n -> DiffMessages] : n \in 0..MaxLen}
NotCalled == [called |-> FALSE, result |-> NoChanges]

\* changes = this.calculateMessageChanges(storedMessages, currentMessages)
CallDiff ==
  /\ ~diffChanges.called
  /\ diffChanges' = [called |-> TRUE,
                     result |-> calculateMessageChanges(diffStored, diffCurrent)]
  /\ UNCHANGED <<win, ad, ops, chains, remote, local, backfills, chan, autoSave, events, idClock,
                 ev, diffStored, diffCurrent, listStored, listResult, idb>>

\* ------------------------------------------------- getAllConversations alone

\* Instants, in the order of their ISO strings; NoTime is a field that is
\* not there.  Now is what new Date() gives when the list is asked for.
NoTime == 0
Times == 1..MaxTime
Now == MaxTime + 1

\* A message as the adapters build it: createdAt and updatedAt are both the
\* instant of the extraction; no timestamp field.
Stamped(t) == [createdAt |-> t, updatedAt |-> t, timestamp |-> NoTime]
StampedSeqs == UNION {[1..n -> {Stamped(t) : t \in Times}] : n \in 0..MaxLen}

\* A record as createConversation and updateConversation leave it: createdAt
\* from the create, updatedAt from the last write, which is not before the
\* extraction of the messages it wrote.  Nothing writes lastMessageAt or
\* timestamp.
Listed == {[conversationId |-> id, messages |-> m, createdAt |-> c, updatedAt |-> u,
            lastMessageAt |-> NoTime, timestamp |-> NoTime] :
             id \in ConvIds, m \in StampedSeqs, c \in Times, u \in Times}
ListedStores ==
  {st \in UNION {[1..n -> Listed] : n \in 0..MaxListed} :
     \A i \in 1..Len(st) :
       /\ st[i].conversationId = i
       /\ st[i].createdAt <= st[i].updatedAt
       /\ \A k \in 1..Len(st[i].messages) : st[i].messages[k].updatedAt <= st[i].updatedAt}

\* A plausible slip: the list is ordered by the records' own updatedAt.
getConversationSortTime_ownTime(conversation) == conversation.updatedAt

\* getConversationSortTime(conversation), the same in StorageManager and in
\* the background page
getConversationSortTime(conversation) ==
  LET lastMessage == conversation.messages[Len(conversation.messages)]
      own == IF conversation.lastMessageAt # NoTime THEN conversation.lastMessageAt
             ELSE IF conversation.createdAt # NoTime THEN conversation.createdAt
             ELSE IF conversation.timestamp # NoTime THEN conversation.timestamp
             ELSE Now
  IN IF Len(conversation.messages) > 0
     THEN IF lastMessage.updatedAt # NoTime THEN lastMessage.updatedAt
          ELSE IF lastMessage.createdAt # NoTime THEN lastMessage.createdAt
          ELSE IF lastMessage.timestamp # NoTime THEN lastMessage.timestamp
          ELSE own
     ELSE own

\* new Date(getConversationSortTime(b)) - new Date(getConversationSortTime(a))
compareSortTime(a, b) == getConversationSortTime(b) - getConversationSortTime(a)

RECURSIVE insertSorted(_, _)
\* Array.prototype.sort is stable: x goes behind every element the
\* comparator does not put after it.
insertSorted(sorted, x) ==
  IF sorted = <<>> THEN <<x>>
  ELSE IF compareSortTime(sorted[Len(sorted)], x) <= 0
  THEN Append(sorted, x)
  ELSE Append(insertSorted(SubSeq(sorted, 1, Len(sorted) - 1), x), sorted[Len(sorted)])

RECURSIVE sortConversations(_)
\* conversations.sort((a, b) => ...)
sortConversations(conversations) ==
  IF conversations = <<>> THEN <<>>
  ELSE insertSorted(sortConversations(SubSeq(conversations, 1, Len(conversations) - 1)),
                    conversations[Len(conversations)])

NotListed == [called |-> FALSE, result |-> <<>>]

\* getAllConversations(): store.getAll() in key order, then the sort
getAllConversations ==
  /\ ~listResult.called
  /\ listResult' = [called |-> TRUE, result |-> sortConversations(listStored)]
  /\ UNCHANGED <<win, ad, ops, chains, remote, local, backfills, chan, autoSave, events, idClock,
                 ev, diffStored, diffCurrent, diffChanges, listStored, idb>>

\* ------------------------------------------------------- specifications

Quiet ==
  /\ ops = [o \in OpIds |-> FreeOp]
  /\ chains = [c \in ChainIds |-> FreeChain]
  /\ backfills = {}
  /\ chan = "ok"
  /\ ev = NoEvent

Fresh == remote = {} /\ local = {} /\ idClock = 0

\* What earlier sessions may have left behind: conversation E1 of link L1 in
\* the background's store and, saved while the channel was down, in the
\* page's own store.
Earlier(id) == Conv(id, "L1", "E1", extractMessages(<<Elem("user", "q")>>))

\* One tab, started on any page in either mode; tab 2 is closed.
Init ==
  /\ \E l \in Locs, d \in Doms :
       win = [t \in Tabs |-> IF t = 1 THEN [loc |-> l, dom |-> d]
                             ELSE [loc |-> NewChatLoc, dom |-> <<>>]]
  /\ ad = [t \in Tabs |-> [NewAdapter(win[t].loc) EXCEPT !.bootTimer = (t = 1)]]
  /\ autoSave \in BOOLEAN
  /\ events = MaxEventsAny
  /\ Quiet
  /\ \/ Fresh
     \/ remote = {Earlier(1)} /\ local = {Earlier(2)} /\ idClock = 2
  /\ diffStored = <<>> /\ diffCurrent = <<>> /\ diffChanges = NotCalled
  /\ listStored = <<>> /\ listResult = NotListed /\ idb = NoDb

Next ==
  \/ \E t \in {1} :
       \/ Navigate(t, Locs, Doms) \/ DomChange(t, Doms) \/ handleUrlCheck(t) \/ BootTimer(t)
       \/ UrlChangedTimer(t) \/ handleManualSave(t) \/ DebounceFire(t)
  \/ \E c \in ChainIds :
       \/ ConnectResponse(c) \/ FindExtResponse(c) \/ FindUrlResponse(c)
       \/ SaveRetryTimer(c) \/ SaveGetResponse(c) \/ SaveGetLocalResponse(c)
       \/ SaveWriteResponse(c) \/ LocalGetResponse(c) \/ LocalWriteResponse(c)
  \/ \E o \in OpIds :
       \/ ExtractionRetry(o) \/ ExtLookupResponse(o) \/ UrlLookupResponse(o)
       \/ DoubleCheckResponse(o) \/ CreateResponse(o)
  \/ \E b \in backfills : BackfillApplied(b)
  \/ ContextInvalidated

Spec == Init /\ [][Next]_vars

\* A browsing session in auto-save mode over a healthy channel: one tab opens
\* a rendered conversation, the user moves between conversations, messages
\* arrive, the save button is pressed.
Rendered == Doms \ {<<>>}

InitSession ==
  /\ win = [t \in Tabs |-> IF t = 1 THEN [loc |-> Loc("L1", "E1"), dom |-> <<Elem("user", "q")>>]
                           ELSE [loc |-> NewChatLoc, dom |-> <<>>]]
  /\ ad = [t \in Tabs |-> [NewAdapter(win[t].loc) EXCEPT !.bootTimer = (t = 1)]]
  /\ autoSave = TRUE
  /\ events = MaxEvents
  /\ Quiet /\ Fresh
  /\ diffStored = <<>> /\ diffCurrent = <<>> /\ diffChanges = NotCalled
  /\ listStored = <<>> /\ listResult = NotListed /\ idb = NoDb

NextSession ==
  \/ \E t \in {1} :
       \/ Navigate(t, LocsWithId, {win[t].dom}) \/ DomChange(t, Rendered)
       \/ handleUrlCheck(t) \/ BootTimer(t) \/ UrlChangedTimer(t)
       \/ handleManualSave(t) \/ DebounceFire(t)
  \/ \E c \in ChainIds :
       \/ ConnectResponse(c) \/ SaveGetResponse(c) \/ SaveWriteResponse(c)
  \/ \E o \in OpIds :
       \/ ExtLookupResponse(o) \/ UrlLookupResponse(o)
       \/ DoubleCheckResponse(o) \/ CreateResponse(o)
  \/ \E b \in backfills : BackfillApplied(b)

SpecSession == InitSession /\ [][NextSession]_vars

\* Two tabs opened at the same time on pages of one link, in auto-save mode
\* over a healthy channel; nothing else happens on the pages.
InitTabs ==
  /\ \E l1 \in {NewChatLoc, Loc("L1", "E1")}, l2 \in {NewChatLoc, Loc("L1", "E2")} :
       win = [t \in Tabs |-> [loc |-> IF t = 1 THEN l1 ELSE l2,
                              dom |-> <<Elem("user", "q")>>]]
  /\ ad = [t \in Tabs |-> [NewAdapter(win[t].loc) EXCEPT !.bootTimer = TRUE]]
  /\ autoSave = TRUE
  /\ events = 0
  /\ Quiet /\ Fresh
  /\ diffStored = <<>> /\ diffCurrent = <<>> /\ diffChanges = NotCalled
  /\ listStored = <<>> /\ listResult = NotListed /\ idb = NoDb

NextTabs ==
  \/ \E t \in Tabs : handleUrlCheck(t) \/ BootTimer(t) \/ UrlChangedTimer(t)
  \/ \E c \in ChainIds :
       \/ ConnectResponse(c) \/ SaveGetResponse(c) \/ SaveWriteResponse(c)
  \/ \E o \in OpIds :
       \/ ExtLookupResponse(o) \/ UrlLookupResponse(o)
       \/ DoubleCheckResponse(o) \/ CreateResponse(o)
  \/ \E b \in backfills : BackfillApplied(b)

SpecTabs == InitTabs /\ [][NextTabs]_vars

\* calculateMessageChanges on every pair of bounded message sequences
DiffInit ==
  /\ win = [t \in Tabs |-> [loc |-> NewChatLoc, dom |-> <<>>]]
  /\ ad = [t \in Tabs |-> NewAdapter(NewChatLoc)]
  /\ autoSave = TRUE
  /\ events = 0
  /\ Quiet /\ Fresh
  /\ diffStored \in DiffSeqs /\ diffCurrent \in DiffSeqs /\ diffChanges = NotCalled
  /\ listStored = <<>> /\ listResult = NotListed /\ idb = NoDb

DiffNext == CallDiff

SpecDiff == DiffInit /\ [][DiffNext]_vars

\* getAllConversations on every bounded store
ListInit ==
  /\ win = [t \in Tabs |-> [loc |-> NewChatLoc, dom |-> <<>>]]
  /\ ad = [t \in Tabs |-> NewAdapter(NewChatLoc)]
  /\ autoSave = TRUE
  /\ events = 0
  /\ Quiet /\ Fresh
  /\ diffStored = <<>> /\ diffCurrent = <<>> /\ diffChanges = NotCalled
  /\ listStored \in ListedStores /\ listResult = NotListed /\ idb = NoDb

ListNext == getAllConversations

SpecList == ListInit /\ [][ListNext]_vars

\* The page's database alone.  What an earlier release left: no database, a
\* version 1 database with the indexes of that version or fewer, or a
\* database of the current version, written by this release or by a build
\* whose store has no externalId index.
LegacyIndexes == {"link", "platform", "updatedAt", "createdAt"}
StoredBefore ==
  {Conv(1, "L1", "E1", extractMessages(<<Elem("user", "q")>>)),
   Conv(2, "L1", Null, extractMessages(<<Elem("user", "q"), Elem("ai", "a")>>)),
   Conv(3, "L2", "E2", <<>>),
   Conv(4, "L2", Null, extractMessages(<<Elem("user", "q")>>))}

otherVars == <<win, ad, ops, chains, remote, local, backfills, chan, autoSave, events, idClock,
               ev, diffStored, diffCurrent, diffChanges, listStored, listResult>>

\* new StorageManager().initDB()
OpenDatabase ==
  /\ ~idb.open
  /\ idb' = [initDB(idb) EXCEPT !.result = NoLookup]
  /\ UNCHANGED otherVars

\* findConversationByExternalId(externalId): getDB(), then the index lookup
FindByExternalId(externalId) ==
  /\ LET d == initDB(idb)
     IN idb' = [d EXCEPT !.result = localFindByExternalId(d, externalId)]
  /\ UNCHANGED otherVars

\* StorageManager.createConversation(conversation): getDB(), then store.add
AddConversation(conversation) ==
  /\ LET d == initDB(idb)
     IN /\ canAdd(d.records, conversation)
        /\ idb' = [d EXCEPT !.records = @ \cup {conversation}, !.result = NoLookup]
  /\ UNCHANGED otherVars

\* The page is reloaded: a new StorageManager, this.db = null.
PageReload ==
  /\ idb.open
  /\ idb' = [idb EXCEPT !.open = FALSE, !.upgraded = FALSE, !.result = NoLookup]
  /\ UNCHANGED otherVars

InitSchema ==
  /\ win = [t \in Tabs |-> [loc |-> NewChatLoc, dom |-> <<>>]]
  /\ ad = [t \in Tabs |-> NewAdapter(NewChatLoc)]
  /\ autoSave = TRUE
  /\ events = 0
  /\ Quiet /\ Fresh
  /\ diffStored = <<>> /\ diffCurrent = <<>> /\ diffChanges = NotCalled
  /\ listStored = <<>> /\ listResult = NotListed
  /\ \/ idb = NoDb
     \/ \E indexes \in {LegacyIndexes, {"link"}}, records \in SUBSET StoredBefore :
          idb = [NoDb EXCEPT !.version = 1, !.store = TRUE, !.indexes = indexes,
                             !.records = records]
     \/ \E indexes \in {IndexNames, LegacyIndexes}, records \in SUBSET StoredBefore :
          idb = [NoDb EXCEPT !.version = DB_VERSION, !.store = TRUE, !.indexes = indexes,
                             !.records = records]

NextSchema ==
  \/ OpenDatabase
  \/ \E externalId \in {"E1", "E2", "E3"} : FindByExternalId(externalId)
  \/ \E conversation \in StoredBefore : AddConversation(conversation)
  \/ PageReload

SpecSchema == InitSchema /\ [][NextSchema]_vars

\* A page over a channel that fails: the background stops answering for a
\* while, or the extension is reloaded under the page.  The page is rendered
\* and stays where it is; the user may press the save button.
InitChannel ==
  /\ \E l \in {NewChatLoc, Loc("L1", "E1")} :
       win = [t \in Tabs |-> IF t = 1 THEN [loc |-> l, dom |-> <<Elem("user", "q")>>]
                             ELSE [loc |-> NewChatLoc, dom |-> <<>>]]
  /\ ad = [t \in Tabs |-> [NewAdapter(win[t].loc) EXCEPT !.bootTimer = (t = 1)]]
  /\ autoSave \in BOOLEAN
  /\ events = MaxChannelEvents
  /\ Quiet
  /\ \/ Fresh
     \/ remote = {Earlier(1)} /\ local = {Earlier(2)} /\ idClock = 2
  /\ diffStored = <<>> /\ diffCurrent = <<>> /\ diffChanges = NotCalled
  /\ listStored = <<>> /\ listResult = NotListed /\ idb = NoDb

NextChannel ==
  \/ \E t \in {1} :
       \/ DomChange(t, Rendered) \/ handleUrlCheck(t) \/ BootTimer(t)
       \/ UrlChangedTimer(t) \/ handleManualSave(t) \/ DebounceFire(t)
  \/ \E c \in ChainIds :
       \/ ConnectResponse(c) \/ FindExtResponse(c) \/ FindUrlResponse(c)
       \/ SaveGetResponse(c) \/ SaveGetLocalResponse(c)
       \/ SaveWriteResponse(c) \/ LocalGetResponse(c) \/ LocalWriteResponse(c)
       \/ LocalSaveFails(c)
  \/ \E o \in OpIds :
       \/ ExtLookupResponse(o) \/ UrlLookupResponse(o)
       \/ DoubleCheckResponse(o) \/ CreateResponse(o) \/ LocalCreateFails(o)
  \/ \E b \in backfills : BackfillApplied(b)
  \/ ChannelDown \/ ChannelUp \/ ChannelInvalidated

SpecChannel == InitChannel /\ [][NextChannel]_vars

\* Page start and database connection, step by step.  The runtime id may be
\* missing while the page loads and appear later; the extension may be
\* reloaded under the page; the background may stop answering for a while.
MaxConnectEvents == 2

MAX_RUNTIME_ID_RETRY == 3
RETRY_DELAY_BASE == 500
MAX_START_RETRY == 5
START_DELAY_BASE == 1000

minOf(x, y) == IF x <= y THEN x ELSE y

\* A plausible slip: one re-check more.
retryConnect_oneMore(retryCount) == retryCount <= MAX_RUNTIME_ID_RETRY

\* retryCount < MAX_RUNTIME_ID_RETRY
retryConnect(retryCount) == retryCount < MAX_RUNTIME_ID_RETRY

\* Math.min(3000, RETRY_DELAY_BASE * (retryCount + 1)): the runtime id or
\* sendMessage is missing
runtimeIdRetryDelay(retryCount) == minOf(3000, RETRY_DELAY_BASE * (retryCount + 1))

\* Math.min(4000, 1000 * (retryCount + 1)): connectDB ended with lastError
lastErrorRetryDelay(retryCount) == minOf(4000, 1000 * (retryCount + 1))

\* fallbackToLocalStorage(): forceLocalStorageMode = true, storageManager.initDB()
fallbackToLocalStorage(a) == [a EXCEPT !.forceLocalStorageMode = TRUE]

ConnectRetryEvent(cause, retryCount, delay) ==
  [NoEvent EXCEPT !.kind = "connectRetry", !.by = cause, !.attempts = retryCount,
                  !.delay = delay]

ConnectSettledEvent(a, retryCount) ==
  [ConnectEvent(a) EXCEPT !.attempts = retryCount]

\* connectToDatabase(retryCount): the check of the runtime id and the answer
\* to connectDB.  A missing id or a lastError arms a timer for
\* connectToDatabase(retryCount + 1) while retryCount < 3; after that
\* fallbackToLocalStorage() resolves the promise.  status 'ok' resolves it.
connectToDatabase(c) ==
  /\ chains[c].pc = "connect"
  /\ LET t == chains[c].tab
         n == chains[c].retry
         resolved(a) == /\ IF chains[c].kind = "init" /\ ~autoSave
                           THEN findConversation(t, c, a)
                           ELSE findOrCreateConversation(t, c, a)
                        /\ ev' = ConnectSettledEvent(a, n)
     IN IF chan = "ok"
        THEN resolved(ad[t])
        ELSE IF retryConnect(n)
        THEN /\ chains' = [chains EXCEPT ![c].retry = n + 1]
             /\ ev' = IF chan = "invalid"
                      THEN ConnectRetryEvent("runtimeId", n + 1, runtimeIdRetryDelay(n))
                      ELSE ConnectRetryEvent("lastError", n + 1, lastErrorRetryDelay(n))
             /\ UNCHANGED <<ad, ops>>
        ELSE resolved(fallbackToLocalStorage(ad[t]))
  /\ UNCHANGED <<win, remote, local, backfills, chan, autoSave, events, idClock, diffVars>>

\* retryCount < 5
retryStart(retryCount) == retryCount < MAX_START_RETRY

StartEvent(kind, retryCount, delay) ==
  [NoEvent EXCEPT !.kind = kind, !.attempts = retryCount, !.delay = delay,
                  !.accepted = (chan # "invalid")]

\* start(): retryInit(retryCount).  With the extension API at hand the page
\* is initialized (init() arms the initAdapter timer); without it the check
\* is repeated after 1000 * (retryCount + 1) ms while retryCount < 5, and
\* then the page is initialized all the same, its storageManager being there.
retryInit(t) ==
  /\ ad[t].startPc = "retryInit"
  /\ LET n == ad[t].startRetry
     IN IF canUseExtensionAPI(ad[t])
        THEN /\ ad' = [ad EXCEPT ![t].startPc = "started", ![t].bootTimer = TRUE]
             /\ ev' = StartEvent("start", n, 0)
        ELSE IF retryStart(n)
        THEN /\ ad' = [ad EXCEPT ![t].startRetry = n + 1]
             /\ ev' = StartEvent("startRetry", n + 1, START_DELAY_BASE * (n + 1))
        ELSE /\ ad' = [ad EXCEPT ![t].startPc = "startedLocal", ![t].bootTimer = TRUE]
             /\ ev' = StartEvent("start", n, 0)
  /\ UNCHANGED <<win, ops, chains, remote, local, backfills, chan, autoSave, events, idClock,
                 diffVars>>

\* chrome.runtime.id is there at last.
RuntimeIdAppears ==
  /\ chan = "invalid"
  /\ events > 0
  /\ events' = events - 1
  /\ chan' = "ok"
  /\ ev' = NoEvent
  /\ UNCHANGED <<win, ad, ops, chains, remote, local, backfills, autoSave, idClock, diffVars>>

InitConnect ==
  /\ win = [t \in Tabs |-> IF t = 1 THEN [loc |-> Loc("L1", "E1"), dom |-> <<Elem("user", "q")>>]
                           ELSE [loc |-> NewChatLoc, dom |-> <<>>]]
  /\ ad = [t \in Tabs |-> IF t = 1 THEN [NewAdapter(win[t].loc) EXCEPT !.startPc = "retryInit"]
                          ELSE NewAdapter(win[t].loc)]
  /\ autoSave \in BOOLEAN
  /\ events = MaxConnectEvents
  /\ ops = [o \in OpIds |-> FreeOp]
  /\ chains = [c \in ChainIds |-> FreeChain]
  /\ backfills = {}
  /\ chan \in {"ok", "invalid"}
  /\ ev = NoEvent
  /\ Fresh
  /\ diffStored = <<>> /\ diffCurrent = <<>> /\ diffChanges = NotCalled
  /\ listStored = <<>> /\ listResult = NotListed /\ idb = NoDb

ConnectSteps == \E c \in ChainIds : connectToDatabase(c)

NextConnect ==
  \/ \E t \in {1} :
       \/ retryInit(t) \/ BootTimer(t) \/ UrlChangedTimer(t)
       \/ ad[t].startPc # "retryInit" /\ handleUrlCheck(t)
  \/ ConnectSteps
  \/ \E c \in ChainIds :
       \/ FindExtResponse(c) \/ FindUrlResponse(c)
       \/ SaveGetResponse(c) \/ SaveGetLocalResponse(c)
       \/ SaveWriteResponse(c) \/ LocalGetResponse(c) \/ LocalWriteResponse(c)
  \/ \E o \in OpIds :
       \/ ExtLookupResponse(o) \/ UrlLookupResponse(o)
       \/ DoubleCheckResponse(o) \/ CreateResponse(o)
  \/ \E b \in backfills : BackfillApplied(b)
  \/ ChannelDown \/ ChannelUp \/ ContextInvalidated \/ RuntimeIdAppears

SpecConnect == InitConnect /\ [][NextConnect]_vars

\* Every timer that connectToDatabase sets fires and every connectDB is
\* answered or ends with lastError.
SpecConnectLive == SpecConnect /\ WF_vars(ConnectSteps)

\* An observed page in auto-save mode over a healthy channel: the messages
\* change only while a connected observer watches them, the URL stays.  Every
\* timer that is set fires and every request that is sent is answered.
Observing(t) == ad[t].connected > 0 /\ ad[t].currentConversationId # NoId

InitLive ==
  /\ \E l \in {NewChatLoc, Loc("L1", "E1")} :
       win = [t \in Tabs |-> IF t = 1 THEN [loc |-> l, dom |-> <<Elem("user", "q")>>]
                             ELSE [loc |-> NewChatLoc, dom |-> <<>>]]
  /\ ad = [t \in Tabs |-> [NewAdapter(win[t].loc) EXCEPT !.bootTimer = (t = 1)]]
  /\ autoSave = TRUE
  /\ events = MaxLiveEvents
  /\ Quiet /\ Fresh
  /\ diffStored = <<>> /\ diffCurrent = <<>> /\ diffChanges = NotCalled
  /\ listStored = <<>> /\ listResult = NotListed /\ idb = NoDb

ObservedDomChange == Observing(1) /\ DomChange(1, Rendered)

ProgramLive ==
  \/ \E t \in {1} :
       \/ handleUrlCheck(t) \/ BootTimer(t) \/ UrlChangedTimer(t) \/ DebounceFire(t)
  \/ \E c \in ChainIds :
       \/ ConnectResponse(c) \/ SaveGetResponse(c) \/ SaveWriteResponse(c)
  \/ \E o \in OpIds :
       \/ ExtLookupResponse(o) \/ UrlLookupResponse(o)
       \/ DoubleCheckResponse(o) \/ CreateResponse(o)

NextLive == ObservedDomChange \/ ProgramLive

SpecLive == InitLive /\ [][NextLive]_vars /\ WF_vars(ProgramLive)

\* ------------------------------------------------------------- properties

\* A rendered page whose autoSave setting is switched while the adapter
\* works: the page starts with either value (the default, or the one read
\* from chrome.storage.sync) and settingsUpdated replaces it; the channel is
\* healthy and the URL stays.
InitSettings ==
  /\ \E l \in {NewChatLoc, Loc("L1", "E1")} :
       win = [t \in Tabs |-> IF t = 1 THEN [loc |-> l, dom |-> <<Elem("user", "q")>>]
                             ELSE [loc |-> NewChatLoc, dom |-> <<>>]]
  /\ ad = [t \in Tabs |-> [NewAdapter(win[t].loc) EXCEPT !.bootTimer = (t = 1)]]
  /\ autoSave \in BOOLEAN
  /\ events = MaxSettingsEvents
  /\ Quiet
  /\ \/ Fresh
     \/ remote = {Earlier(1)} /\ local = {Earlier(2)} /\ idClock = 2
  /\ diffStored = <<>> /\ diffCurrent = <<>> /\ diffChanges = NotCalled
  /\ listStored = <<>> /\ listResult = NotListed /\ idb = NoDb

NextSettings ==
  \/ settingsUpdated
  \/ \E t \in {1} :
       \/ DomChange(t, Rendered) \/ handleUrlCheck(t) \/ BootTimer(t)
       \/ UrlChangedTimer(t) \/ handleManualSave(t) \/ DebounceFire(t)
  \/ \E c \in ChainIds :
       \/ ConnectResponse(c) \/ FindExtResponse(c) \/ FindUrlResponse(c)
       \/ SaveGetResponse(c) \/ SaveWriteResponse(c)
  \/ \E o \in OpIds :
       \/ ExtLookupResponse(o) \/ UrlLookupResponse(o)
       \/ DoubleCheckResponse(o) \/ CreateResponse(o)
  \/ \E b \in backfills : BackfillApplied(b)

SpecSettings == InitSettings /\ [][NextSettings]_vars

\* A rendered page of link L1 that carries an external id, in either mode,
\* over a healthy channel.  The background store is empty or holds the record
\* an earlier session created for L1 while the page had no external id yet.
Legacy(id) == Conv(id, "L1", Null, extractMessages(<<Elem("user", "q")>>))

InitBackfill ==
  /\ \E l \in {Loc("L1", "E1"), Loc("L1", "E2")} :
       win = [t \in Tabs |-> IF t = 1 THEN [loc |-> l, dom |-> <<Elem("user", "q")>>]
                             ELSE [loc |-> NewChatLoc, dom |-> <<>>]]
  /\ ad = [t \in Tabs |-> [NewAdapter(win[t].loc) EXCEPT !.bootTimer = (t = 1)]]
  /\ autoSave \in BOOLEAN
  /\ events = MaxEventsAny
  /\ Quiet
  /\ local = {}
  /\ \/ remote = {} /\ idClock = 0
     \/ remote = {Legacy(1)} /\ idClock = 1
  /\ diffStored = <<>> /\ diffCurrent = <<>> /\ diffChanges = NotCalled
  /\ listStored = <<>> /\ listResult = NotListed /\ idb = NoDb

NextBackfill ==
  \/ \E t \in {1} :
       \/ DomChange(t, Rendered) \/ handleUrlCheck(t) \/ BootTimer(t)
       \/ UrlChangedTimer(t) \/ handleManualSave(t) \/ DebounceFire(t)
  \/ \E c \in ChainIds :
       \/ ConnectResponse(c) \/ FindExtResponse(c) \/ FindUrlResponse(c)
       \/ SaveGetResponse(c) \/ SaveWriteResponse(c)
  \/ \E o \in OpIds :
       \/ ExtLookupResponse(o) \/ UrlLookupResponse(o)
       \/ DoubleCheckResponse(o) \/ CreateResponse(o)
  \/ \E b \in backfills : BackfillApplied(b)

SpecBackfill == InitBackfill /\ [][NextBackfill]_vars

\* A rendered page of link L1 whose URL carries an external id, a placeholder
\* of a chat not yet named by the platform ('new_conversation_...') or a real
\* one.  The stores are as in InitBackfill.
PlaceholderLoc == Loc("L1", "new_conversation_1")

InitNewChat ==
  /\ \E l \in {PlaceholderLoc, Loc("L1", "E1")} :
       win = [t \in Tabs |-> IF t = 1 THEN [loc |-> l, dom |-> <<Elem("user", "q")>>]
                             ELSE [loc |-> NewChatLoc, dom |-> <<>>]]
  /\ ad = [t \in Tabs |-> [NewAdapter(win[t].loc) EXCEPT !.bootTimer = (t = 1)]]
  /\ autoSave \in BOOLEAN
  /\ events = MaxEventsAny
  /\ Quiet
  /\ local = {}
  /\ \/ remote = {} /\ idClock = 0
     \/ remote = {Legacy(1)} /\ idClock = 1
  /\ diffStored = <<>> /\ diffCurrent = <<>> /\ diffChanges = NotCalled
  /\ listStored = <<>> /\ listResult = NotListed /\ idb = NoDb

SpecNewChat == InitNewChat /\ [][NextBackfill]_vars

inFlight(t) == {o \in OpIds : ops[o].pc # "free" /\ ops[o].tab = t}

\* C1: calls of findOrCreateConversation made for one urlKey with no URL
\* change since the first of them share a single operation: a tab never has
\* two operations in flight that both began after the last URL change.
C1_SharedOperation ==
  \A t \in Tabs : Cardinality({o \in inFlight(t) : ops[o].fresh}) <= 1

\* C2: in every reachable state a tab has at most one findOrCreateConversation
\* operation in flight per urlKey.
C2_OnePerUrlKey ==
  \A t \in Tabs : \A o1, o2 \in inFlight(t) : ops[o1].key = ops[o2].key => o1 = o2

\* C3: no operation inserts a record when, since its first URL lookup was
\* answered, another actor has created a conversation of the same URL that the
\* lookups accept.
C3_NoInsertAfterRace ==
  ev.kind = "insert" => ~ev.raced

\* C4: two tabs without external id on the same URL leave at most one record
\* with that link in the store.
C4_OneRecordPerLink ==
  (\A t \in Tabs : win[t].loc = NewChatLoc)
     => Cardinality({r \in remote : r.link = cleanUrl(NewChatLoc)}) <= 1

\* C5: a URL lookup result whose stored externalId is non-null and differs from
\* the caller's non-empty external id is never returned, whichever resolver,
\* lookup or backend judged it.
C5_MismatchRejected ==
  (ev.kind = "match" /\ ev.caller # Null /\ ev.stored # Null /\ ev.stored # ev.caller)
     => ~ev.accepted

C5_Witness ==
  /\ ev.kind = "match" /\ ev.by = "double"
  /\ ev.caller # Null /\ ev.stored # Null /\ ev.stored # ev.caller
  /\ ~ev.accepted

\* C6: no save replaces the messages of a stored conversation whose externalId
\* is non-null and differs from the external id of the page the messages were
\* extracted from.
C6_SaveStaysInConversation ==
  ev.kind = "save" => (ev.convExt = Null \/ ev.convExt = ev.pageExt)

\* C7: a conversation that already has a record with its externalId is never
\* given a second record.
C7_NoRecordOnRevisit ==
  ev.kind = "insert" => ~ev.revisit

\* C8: calculateMessageChanges(S, S) is empty for every message sequence S.
C8_DiffOfEqualIsEmpty ==
  (diffChanges.called /\ diffStored = diffCurrent) => diffChanges.result = NoChanges

absentFrom(msgs, m) == \A i \in 1..Len(msgs) : msgs[i].messageId # m.messageId
lastOf(msgs, id) ==
  msgs[CHOOSE i \in 1..Len(msgs) :
         /\ msgs[i].messageId = id
         /\ \A j \in (i + 1)..Len(msgs) : msgs[j].messageId # id]
changedIn(sto, cur) ==
  SelectSeq(cur, LAMBDA m : ~absentFrom(sto, m) /\ lastOf(sto, m.messageId).content # m.content)

\* C9: newMessages are exactly the current messages whose messageId is absent
\* from stored, updatedMessages exactly the current messages present in both
\* whose content differs from the stored content (the content the stored map
\* holds for the id), with both contents recorded, and removedMessages exactly
\* the stored messages whose messageId is absent from current, each in order.
C9_DiffIsExact ==
  diffChanges.called =>
    /\ diffChanges.result.newMessages =
         SelectSeq(diffCurrent, LAMBDA m : absentFrom(diffStored, m))
    /\ Len(diffChanges.result.updatedMessages) = Len(changedIn(diffStored, diffCurrent))
    /\ \A k \in 1..Len(changedIn(diffStored, diffCurrent)) :
         diffChanges.result.updatedMessages[k] =
           [messageId |-> changedIn(diffStored, diffCurrent)[k].messageId,
            oldContent |-> lastOf(diffStored, changedIn(diffStored, diffCurrent)[k].messageId).content,
            newContent |-> changedIn(diffStored, diffCurrent)[k].content]
    /\ diffChanges.result.removedMessages =
         SelectSeq(diffStored, LAMBDA m : absentFrom(diffCurrent, m))

C9_Witness ==
  /\ diffChanges.called
  /\ Len(diffChanges.result.newMessages) > 0
  /\ Len(diffChanges.result.updatedMessages) > 0
  /\ Len(diffChanges.result.removedMessages) > 0

\* C10: a save whose diff between the stored and the extracted messages is
\* empty writes nothing.
C10_NoWriteOnEmptyDiff ==
  ev.kind = "save" => ~ev.emptyDiff

\* C11: once a save that found changes has written, the stored conversation's
\* messages are the sequence the save extracted, in the same order, whatever
\* was stored before; no stored message absent from it survives.
C11_SaveReplacesMessages ==
  (ev.kind = "save" /\ ~ev.emptyDiff)
     => getConversation(storeOf(ev.backend), ev.id).messages = ev.msgs

C11_Witness ==
  /\ ev.kind = "save" /\ ~ev.emptyDiff /\ ev.dropped
  /\ getConversation(storeOf(ev.backend), ev.id).messages = ev.msgs

\* C12: once a store call has met 'Extension context invalidated', the store
\* call that follows it is not sent over the extension channel.
C12_FailoverAfterInvalidation ==
  (ev.kind = "failure" /\ ev.fatal) => ev.nextVia # "remote"

\* C13: forceLocalStorageMode never goes back from true to false, whatever
\* the step: a connect, a failed or an answered request, a URL change, a
\* re-initialisation.
C13_ForceLocalMonotonic ==
  [][\A t \in Tabs : ad[t].forceLocalStorageMode => ad'[t].forceLocalStorageMode]_vars

C13_Witness ==
  /\ ev.kind = "connect" /\ ev.accepted /\ ev.force
  /\ ad[1].forceLocalStorageMode

\* C14: a store call whose remote attempt fails without the context being
\* invalidated has been sent at most 1 + 2 times and is then served by the
\* local store.
C14_NonFatalFailureServedLocally ==
  (ev.kind = "failure" /\ ~ev.fatal)
     => (ev.attempts <= 1 + SEND_RETRIES /\ ev.servedLocal)

lastMessageTime(conversation) == conversation.messages[Len(conversation.messages)].updatedAt

\* C15: getAllConversations returns every stored conversation once, and of two
\* conversations that have messages the one whose last message is later
\* comes first, whatever their own createdAt and updatedAt are.
C15_ListedByLastMessage ==
  listResult.called =>
    /\ Len(listResult.result) = Len(listStored)
    /\ \A k \in 1..Len(listStored) :
         \E i \in 1..Len(listResult.result) : listResult.result[i] = listStored[k]
    /\ \A i, j \in 1..Len(listResult.result) :
         (/\ i < j
          /\ Len(listResult.result[i].messages) > 0
          /\ Len(listResult.result[j].messages) > 0)
           => lastMessageTime(listResult.result[i]) >= lastMessageTime(listResult.result[j])

C15_Witness ==
  /\ listResult.called /\ Len(listResult.result) = 2
  /\ listResult.result[1] = listStored[2]
  /\ Len(listResult.result[1].messages) > 0 /\ Len(listResult.result[2].messages) > 0
  /\ lastMessageTime(listResult.result[1]) > lastMessageTime(listResult.result[2])
  /\ listResult.result[1].updatedAt < listResult.result[2].updatedAt
  /\ listResult.result[1].createdAt < listResult.result[2].createdAt

ownTime(conversation) ==
  IF conversation.updatedAt # NoTime THEN conversation.updatedAt ELSE conversation.createdAt

\* C16: a conversation without messages is listed by its own updatedAt (its
\* createdAt when it has none): it comes before every conversation whose
\* last activity is older.
C16_EmptyListedByOwnUpdate ==
  listResult.called =>
    \A i, j \in 1..Len(listResult.result) :
      (/\ Len(listResult.result[j].messages) = 0
       /\ Len(listResult.result[i].messages) > 0
       /\ ownTime(listResult.result[j]) > lastMessageTime(listResult.result[i]))
        => j < i

\* C17: findOrCreateConversation extracts an empty page again at most 3 times
\* after its first attempt; when the last extraction is empty too it resolves
\* null without a store lookup and without creating a conversation.
C17_ExtractionRetriesBounded ==
  [][\A o \in OpIds :
       /\ ops'[o].pc = "retry" => ops'[o].retry < EXTRACT_RETRIES
       /\ (/\ ops[o].pc = "retry" /\ ops'[o].pc # "retry"
           /\ extractMessages(win[ops[o].tab].dom) = <<>>)
            => /\ ops[o].retry = EXTRACT_RETRIES - 1
               /\ ops'[o] = FreeOp
               /\ ev' = EmptyEvent(1 + EXTRACT_RETRIES)
               /\ remote' = remote /\ local' = local /\ idClock' = idClock
               /\ backfills' = backfills
               /\ ad'[ops[o].tab].currentConversationId
                     = ad[ops[o].tab].currentConversationId
               /\ \A c \in ChainIds :
                    (chains[c].pc = "awaitOp" /\ chains[c].op = o) => chains'[c] = FreeChain]_vars

C17_Witness ==
  /\ ev.kind = "empty" /\ ev.attempts = 1 + EXTRACT_RETRIES
  /\ remote = {} /\ local = {}
  /\ \A o \in OpIds : ops[o].pc = "free"

Synced(t) ==
  getConversation(remote, ad[t].currentConversationId).messages = extractMessages(win[t].dom)

\* C19: once the messages of an observed page have stopped changing, the
\* stored messages of the attached conversation eventually equal the
\* messages the page shows.
C19_EventuallySynced ==
  (events = 0 /\ Observing(1)) ~> Synced(1)

\* C20: while the autoSave setting is false, a record is created or updated
\* only on behalf of a manual-save event: a save that writes changes is never
\* initAdapter's initial save or the save of a change signal, and a record is
\* inserted only for a manual save, which goes on to save into it.
C20_OnlyManualSaveWrites ==
  ~autoSave =>
     /\ (ev.kind = "save" /\ ~ev.emptyDiff) => ev.by \notin {"init", "signal"}
     /\ ev.kind = "insert" =>
          \E c \in ChainIds : chains[c].kind = "manual" /\ chains[c].target = ev.id

\* The positions of a chain inside performIncrementalSave's read-modify-write
savePcs == {"saveGet", "saveGetLocal", "saveWrite", "localGet", "localWrite"}

C22_ExternalIdAuthoritative ==
  [][/\ \A o \in OpIds :
          (/\ ops[o].pc = "extLookup" /\ ops'[o].pc # "extLookup"
           /\ \E r \in storeOf(backendOf(ad[ops[o].tab])) :
                 r.externalId = ops[o].externalId)
             => ops'[o].pc # "urlLookup"
     /\ \A c \in ChainIds :
          (/\ chains[c].pc = "findExt" /\ chains'[c].pc # "findExt"
           /\ \E r \in storeOf(backendOf(ad[chains[c].tab])) :
                 r.externalId = chains[c].externalId)
             => chains'[c].pc # "findUrl"]_vars

\* C23: a double-check lookup that fails is not taken for a miss:
\* findOrCreateConversation does not go on to createNewConversation from it.
C23_FailedDoubleCheckNoInsert ==
  [][\A o \in OpIds :
       (ops[o].pc = "doubleCheck" /\ ops[o].via = "remote" /\ chan # "ok")
          => ops'[o].pc # "create"]_vars

\* C24 as stated: whenever a URL lookup match is accepted, the stored record
\* has no externalId and the caller has one, the write that sets externalId on
\* that record is issued, in findConversation as in findOrCreateConversation.
C24_BackfillOnEveryAcceptedMatch ==
  (ev.kind = "match" /\ ev.accepted /\ ev.stored = Null /\ ev.caller # Null)
     => \E b \in backfills : /\ b.conv.conversationId = ev.id
                             /\ b.conv.externalId = ev.caller

\* C24, amended: the write is issued when the match is accepted by the first
\* lookup or by the double check of findOrCreateConversation; findConversation,
\* the lookup-only resolver, returns the record's id and writes nothing.
C24_BackfillOnCreatePathOnly ==
  (ev.kind = "match" /\ ev.accepted /\ ev.stored = Null /\ ev.caller # Null)
     => IF ev.by \in {"first", "double"}
        THEN \E b \in backfills : /\ b.conv.conversationId = ev.id
                                  /\ b.conv.externalId = ev.caller
                                  /\ b.store = ev.backend
        ELSE /\ ev.by = "find"
             /\ backfills = {}
             /\ getConversation(storeOf(ev.backend), ev.id).externalId = Null

\* The first lookup of findOrCreateConversation has accepted a record without
\* externalId on a page that has one, and the write is on its way.
C24_Witness ==
  /\ ev.kind = "match" /\ ev.accepted /\ ev.by = "first"
  /\ ev.stored = Null /\ ev.caller \in Exts
  /\ \E b \in backfills : b.conv.conversationId = ev.id /\ b.conv.externalId = ev.caller
  /\ getConversation(remote, ev.id).externalId = Null

\* C25: when a findOrCreateConversation operation settles while the pending
\* slot of its adapter is held by another, newer operation, that slot is left
\* as it is.
C25_SettleKeepsNewerSlot ==
  [][\A o \in OpIds :
       LET t == ops[o].tab
       IN (/\ ops[o].pc # "free" /\ ops'[o].pc = "free"
           /\ ad[t].creationPromise \notin {o, NoId}
           /\ ops'[ad[t].creationPromise].pc # "free")
             => /\ ad'[t].creationPromise = ad[t].creationPromise
                /\ ad'[t].isCreatingConversation]_vars

\* C26: a remote create that has failed is repeated with the same record on
\* the local store; when the local create succeeds the record is in the local
\* store and findOrCreateConversation resolves to its id, which the callers
\* attach; when it fails the operation settles without an id: no store
\* changes, no conversationId is attached and the pending slot is released.
C26_CreateFallsBackToLocal ==
  [][\A o \in OpIds :
       LET t == ops[o].tab
           conv == ops[o].conv
           waiting == {c \in ChainIds : chains[c].pc = "awaitOp" /\ chains[c].op = o}
       IN (ops[o].pc = "create" /\ (ops'[o].pc # "create" \/ ops'[o].via # ops[o].via))
            => IF ops[o].via = "remote" /\ chan # "ok"
               THEN /\ ops'[o].pc = "create" /\ ops'[o].via = "local"
                    /\ ops'[o].conv = conv
                    /\ remote' = remote /\ local' = local
                    /\ ad'[t].currentConversationId = ad[t].currentConversationId
               ELSE IF ev'.kind = "rejected"
               THEN /\ ops'[o] = FreeOp
                    /\ remote' = remote /\ local' = local
                    /\ ad'[t].currentConversationId = ad[t].currentConversationId
                    /\ ~ad'[t].isCreatingConversation /\ ad'[t].creationPromise = NoId
                    /\ \A c \in waiting : chains'[c] = FreeChain
               ELSE /\ ops'[o] = FreeOp
                    /\ conv \in (IF ops[o].via = "remote" THEN remote' ELSE local')
                    /\ ev'.kind = "insert" /\ ev'.backend = ops[o].via
                    /\ waiting # {} => ad'[t].currentConversationId = conv.conversationId]_vars

\* The background did not answer the create, the adapter is still in remote
\* mode, and the record has been inserted into the local store and attached.
C26_Witness ==
  /\ ev.kind = "insert" /\ ev.backend = "local"
  /\ chan = "down" /\ ~ad[1].forceLocalStorageMode
  /\ ad[1].currentConversationId = ev.id
  /\ getConversation(local, ev.id) # NoConv
  /\ getConversation(remote, ev.id) = NoConv

\* C27: when a save started by a change signal has failed on every backend,
\* the error status is shown, the observer is still connected and isChecking
\* is false again.
C27_SignalSaveFailureReported ==
  (ev.kind = "saveFailed" /\ ev.by = "signal")
     => /\ ev.errorShown
        /\ ad[1].connected > 0
        /\ ~ad[1].isChecking

\* C28: at most one mutation observer the adapter created is connected, also
\* when several initAdapter chains overlap.
C28_OneObserverConnected ==
  \A t \in Tabs : ad[t].connected <= 1

\* C29 as stated: the mutation observer is installed only after the initial snapshot of
\* the attached conversation has been written: in the step in which
\* initAdapter connects an observer, its initial save has just been persisted.
C29_ObserverOnlyAfterSnapshot ==
  [][\A t \in Tabs :
       ad'[t].connected > ad[t].connected
          => /\ ev'.kind = "save"
             /\ ev'.by = "init"
             /\ ev'.id = ad'[t].currentConversationId]_vars

\* C29, amended: an observer is connected only in auto-save mode with a
\* conversation attached, in the step in which the saveAllMessages call of an
\* initAdapter chain returns, and it is installed whenever such a call returns:
\* whether the snapshot was written, left out, failed, or put off to the retry
\* timer makes no difference.
C29_ObserverAfterInitialSave ==
  [][/\ \A t \in Tabs :
          ad'[t].connected > ad[t].connected
             => /\ autoSave
                /\ ad'[t].currentConversationId # NoId
                /\ \E c \in ChainIds :
                     /\ chains[c].kind = "init" /\ chains[c].tab = t
                     /\ chains[c].pc \in savePcs \cup {"awaitOp", "findUrl", "findExt"}
                     /\ chains'[c].pc \in {"free", "saveRetry"}
     /\ \A c \in ChainIds :
          (/\ chains[c].kind = "init" /\ chains[c].pc \in savePcs
           /\ chains'[c].pc = "free"
           /\ autoSave /\ ad[chains[c].tab].currentConversationId # NoId)
             => ad'[chains[c].tab].contentObserver]_vars

\* The initial save found an empty page and is waiting for its retry timer,
\* nothing has been written for the attached conversation, and the observer
\* is connected.
C29_Witness ==
  \E c \in ChainIds :
    /\ chains[c].pc = "saveRetry" /\ chains[c].tab = 1
    /\ ad[1].connected > 0 /\ ad[1].contentObserver
    /\ ad[1].currentConversationId # NoId
    /\ ev.kind # "save"

\* C30: at most one read-modify-write of performIncrementalSave is in flight
\* on a page at any time, whichever path started it.
C30_OneSaveInFlight ==
  \A t \in Tabs :
    Cardinality({c \in ChainIds : chains[c].tab = t /\ chains[c].pc \in savePcs}) <= 1

\* C31: once initAdapter has started for a urlKey, currentConversationId is
\* null or the id of a conversation of that urlKey: nothing resolved for an
\* earlier urlKey is, or stays, attached.
C31_AttachedIdOfCurrentKey ==
  \A t \in Tabs :
    (ad[t].currentUrlKey # Null /\ ad[t].currentConversationId # NoId)
       => \A r \in remote \cup local :
            r.conversationId = ad[t].currentConversationId
               => r.link \in {ad[t].currentUrlKey, Null}

\* C32: connectToDatabase always settles.  While the runtime id (or
\* sendMessage) is missing it re-checks at most 3 more times, the k-th
\* re-check 500 ms x k after the check before it (500, 1000, 1500 ms); a
\* connection that settles without the background's 'ok' settles after the
\* third re-check failed, on the local store and with forceLocalStorageMode
\* set.  A pending connection is never left pending.
C32_ConnectSettles ==
  /\ [][/\ (ev'.kind = "connectRetry" /\ ev'.by = "runtimeId")
             => /\ ev'.attempts \in 1..3
                /\ ev'.delay = 500 * ev'.attempts
                /\ ev'.delay <= 3000
        /\ (ev'.kind = "connect" /\ ~ev'.accepted)
             => /\ ev'.attempts = 3
                /\ ev'.force
                /\ \E c \in ChainIds :
                     /\ chains[c].pc = "connect" /\ chains'[c].pc # "connect"
                     /\ ad'[chains[c].tab].forceLocalStorageMode]_vars
  /\ [](\A c \in ChainIds : chains[c].pc = "connect" => chains[c].retry <= 3)
  /\ \A c \in ChainIds : (chains[c].pc = "connect") ~> (chains[c].pc # "connect")

C32_Witness ==
  /\ ev.kind = "connect" /\ ~ev.accepted /\ ev.attempts = 3 /\ ev.force
  /\ ad[1].forceLocalStorageMode
  /\ chan = "invalid"

\* C33: start() repeats its check at most 5 times after the first one, the
\* k-th repetition 1 s x k after the check before it; when the extension API
\* was missing at every check the page is initialized against the local
\* store, and from then on no lookup, insert or save of the page goes to the
\* background's store, whatever becomes of the extension API.
C33_LocalOnlyAfterFailedStart ==
  /\ [][(ev'.kind = "startRetry")
           => ev'.attempts \in 1..5 /\ ev'.delay = 1000 * ev'.attempts]_vars
  /\ [](\A t \in Tabs :
          ad[t].startPc = "startedLocal"
             => /\ ad[t].startRetry = 5
                /\ ~(ev.kind = "connect" /\ ev.accepted)
                /\ ~(ev.kind \in {"match", "insert", "save"} /\ ev.backend = "remote"))

\* C34: after createConversation(c) succeeded on a backend, that backend
\* returns c by its conversationId, a record with c's link by URL and, when
\* c.externalId is not null, a record with c's externalId by external id.
C34_CreateRoundTrip ==
  [][ev'.kind = "insert"
       => LET S == IF ev'.backend = "remote" THEN remote' ELSE local'
              c == getConversation(S, ev'.id)
              extS == externalIdStoreOf(ev'.backend, remote', local')
          IN /\ c # NoConv
             /\ c.messages = ev'.msgs /\ c.externalId = ev'.convExt
             /\ findConversationByUrl(S, c.link).link = c.link
             /\ c.externalId # Null
                  => storeFindByExternalId(extS, c.externalId).externalId = c.externalId]_vars

\* C35: in the local store a lookup by external id on a database whose store
\* has no externalId index resolves to null, it does not fail; and opening a
\* database of a lower version adds the missing indexes to the object store
\* that is there and leaves every stored conversation as it was.
C35_SchemaTolerant ==
  [][/\ (idb'.result.called /\ "externalId" \notin idb'.indexes)
          => ~idb'.result.failed /\ idb'.result.conversation = NoConv
     /\ (~idb.open /\ idb'.open /\ idb.store /\ idb.version < 2)
          => /\ idb'.upgraded /\ idb'.version = 2 /\ idb'.store
             /\ idb.indexes \subseteq idb'.indexes
             /\ {"link", "platform", "updatedAt", "createdAt", "externalId"}
                   \subseteq idb'.indexes
             /\ idb.records \subseteq idb'.records]_vars

C35_Witness ==
  /\ idb.open /\ idb.result.called /\ ~idb.result.failed
  /\ "externalId" \notin idb.indexes
  /\ idb.result.conversation = NoConv
  /\ \E r \in idb.records : r.externalId = "E1"

\* C36: no failure of a backend operation ends as an unhandled promise
\* rejection: every promise that a store call of resolution, creation,
\* backfill or saving rejects, the one derived by the finally-cleanup of
\* creationPromise included, has a handler.
C36_NoUnhandledRejection == ev.unhandled = {}

\* C37: every record findOrCreateConversation creates carries the messages
\* the operation extracted, the URL the page was at when they were extracted
\* as its link, and the page's external id of that moment as its externalId,
\* whatever happens to the URL while the lookups are pending.
C37_RecordOfExtractionPage ==
  ev.kind = "insert" =>
    LET c == getConversation(storeOf(ev.backend), ev.id)
    IN /\ c.messages = ev.msgs
       /\ c.link \in {ev.at.link, ev.at.winLink}
       /\ c.externalId \in {ev.at.ext, ev.at.winExt}

\* C38: the externalId of every stored conversation is null or is not a
\* placeholder: neither the create nor the backfill writes an external id
\* that starts with 'new_conversation_'.
C38_NoPlaceholderStored ==
  \A r \in remote \cup local : r.externalId = Null \/ ~isPlaceholder(r.externalId)

\* C39: every conversation record in either store has a link and a platform,
\* so a URL lookup can find it again; the record a save creates for an
\* attached conversationId that the local store does not hold is no exception.
C39_RecordsHaveLinkAndPlatform ==
  \A r \in remote \cup local : r.link # Null /\ r.platform # Null

\* C40: the externalId backfill changes only the externalId of the record it
\* matched.  Whatever the interleaving with the saves that follow the
\* attachment, a step that is not a save leaves the messages of every stored
\* record as they are, and no step takes away or changes an externalId that
\* a record has.
C40_BackfillTouchesOnlyExternalId ==
  [][\A s \in {"remote", "local"} :
       LET before == IF s = "remote" THEN remote ELSE local
           after == IF s = "remote" THEN remote' ELSE local'
       IN \A r \in before : \A q \in after :
            r.conversationId = q.conversationId
               => /\ (ev'.kind # "save") => q.messages = r.messages
                  /\ (r.externalId # Null) => q.externalId = r.externalId]_vars

====
